---- MODULE Spec2Model ----
(***************************************************************************)
(* Process supervision of the `ipfs` daemon by ipfs-cli-wrapper, and the   *)
(* command adapter that runs one `ipfs` invocation per call.               *)
(*                                                                         *)
(* Each wrapper instance lives in its own application process and shares   *)
(* the operating system's process table with the others.  A call of        *)
(* StartDaemonInBackground, ShutdownDaemon or ForceShutdownDaemon is a     *)
(* sequence of steps driven by pc[w]; between two steps of a call the      *)
(* operating system may change the process table.                          *)
(***************************************************************************)
EXTENDS Integers, FiniteSets, Sequences, TLC

VARIABLES
    isDaemonRunning,             \* wrapper field, per wrapper
    isDaemonRunningContinously,  \* wrapper field, per wrapper
    daemonInitialWarmupDuration, \* wrapper field, in seconds
    platform,                    \* wrapper fields os and arch, per wrapper
    ipfsDaemonCmd,               \* the exec.Cmd of the daemon, per wrapper
    pc,                          \* position of the wrapper's caller
    result,                      \* value returned by the last call
    call,                        \* what the current (or last) call has done
    spawned,                     \* children spawned so far, per wrapper
    everRunning,                 \* the running flag has been true, per wrapper
    procs,                       \* operating-system process table
    processEnv,                  \* IPFS_PATH in the application's environment
    adapter,                     \* the adapter call in progress (or the last one)
    cmdOutput,                   \* combined output of a finished `ipfs` command
    cmdErr,                      \* the command ended with an error
    parsed,                      \* what the adapter made of the output
    tempFiles,                   \* temporary files in the working directory
    tcall,                       \* AddFileContent calls, per calling goroutine
    disk,                        \* what NewWrapper finds and leaves on disk
    prov,                        \* the construction in progress (or the last one)
    startup,                     \* how the options of NewWrapper went, per wrapper
    race,                        \* concurrent StartDaemonInBackground calls, per goroutine
    pgrep,                       \* exit status and output of a `pgrep -x` run
    running                      \* what IsProgramRunning returned for it

supervisorVars == <<isDaemonRunning, isDaemonRunningContinously,
                    daemonInitialWarmupDuration, platform, ipfsDaemonCmd, pc, result,
                    call, spawned, everRunning, procs>>

adapterVars == <<processEnv, adapter>>

parseVars == <<cmdOutput, cmdErr, parsed>>

tempVars == <<tempFiles, tcall>>

provVars == <<disk, prov>>

startupVars == <<startup>>

raceVars == <<race>>

lookupVars == <<pgrep, running>>

vars == <<supervisorVars, adapterVars, parseVars, tempVars, provVars, startupVars,
          raceVars, lookupVars>>

----------------------------------------------------------------------------
(* Bounds and program constants *)

\* Number of process-table slots for `ipfs` processes not spawned by a wrapper.
MaxExt == 1

\* Largest value passed to WithOverrideDaemonInitialWarmupDuration.
MaxWarmupOverride == 1

\* time.Duration(5) * time.Second, the default warmup.
DefaultWarmupSeconds == 5

Wrappers == {"w1", "w2"}

\* The wrappers whose calls Spec follows step by step.  The daemon of any
\* other application is one of the `ipfs` processes of the environment.
Callers == {"w1"}

ExtPids == 1 .. MaxExt

\* A process whose name merely contains "ipfs"; it is always alive.
OtherPid == 0

ChildPid(w) == IF w = "w1" THEN MaxExt + 1 ELSE MaxExt + 2

Pids == {OtherPid} \cup ExtPids \cup {ChildPid(w) : w \in Wrappers}

ProcName(p) == IF p = OtherPid THEN "comicbookss_ipfs_backend" ELSE "ipfs"

Live == {"alive", "term"}
Zombie == {"exit0", "exit1", "signaled"}

----------------------------------------------------------------------------
(* The operating system: process lookup by name, signals *)

\* `pgrep -x`: the -x flag matches the exact process name only.
PgrepMatches(p, pattern) == ProcName(p) = pattern

\* The possible outcomes of running `pgrep -x pattern`: exit status 0 with
\* the matching pids, exit status 1 when nothing matches, or a failure of
\* the lookup itself (status 2).  Whether an exited but unreaped process is
\* listed depends on the platform, so every subset of them may be listed.
PgrepOutcomes(pattern) ==
    LET live == {p \in Pids : PgrepMatches(p, pattern) /\ procs[p] \in Live}
        dead == {p \in Pids : PgrepMatches(p, pattern) /\ procs[p] \in Zombie}
    IN  {[status |-> 2, pids |-> {}]} \cup
        {[status |-> IF (live \cup z) = {} THEN 1 ELSE 0, pids |-> live \cup z] :
            z \in SUBSET dead}

NoLookup == [status |-> -1, pids |-> {}]

\* oskit.IsProgramRunning applied to the outcome r of the pgrep run.
\* Variant: a failed lookup is taken for "not running".
IsProgramRunningNoErr(r) == [running |-> r.status = 0 /\ r.pids /= {}, err |-> FALSE]

IsProgramRunning(r) ==
    IF r.status /= 0
    THEN [running |-> FALSE, err |-> r.status /= 1]
    ELSE [running |-> r.pids /= {}, err |-> FALSE]

\* The process table after signal sig was delivered to the processes in ps.
\* SIGKILL ends a live process at once; SIGTERM asks it to terminate and the
\* process exits later on its own.  Signalling a zombie changes nothing.
Deliver(tbl, ps, sig) ==
    [p \in Pids |->
        IF p \in ps /\ tbl[p] \in Live
        THEN IF sig = "SIGKILL" THEN "signaled" ELSE "term"
        ELSE tbl[p]]

\* ProcessState.ExitCode(): -1 for a process terminated by a signal.
ExitCode(st) ==
    IF st = "signaled" THEN -1 ELSE IF st = "exit0" THEN 0 ELSE 1

----------------------------------------------------------------------------
(* Wrapper state *)

\* runtime.GOOS and runtime.GOARCH, or the pair given to
\* WithOverrideBinaryOsAndArch, of the wrappers in use.
HostPlatform == [os |-> "linux", arch |-> "amd64"]
Platforms == {HostPlatform, [os |-> "darwin", arch |-> "arm64"]}

SupervisorInit ==
    /\ isDaemonRunning = [w \in Wrappers |-> FALSE]
    /\ platform \in {f \in [Wrappers -> Platforms] :
                        \A w \in Wrappers \ Callers : f[w] = HostPlatform}
    /\ isDaemonRunningContinously \in
           {f \in [Wrappers -> BOOLEAN] : \A w \in Wrappers \ Callers : ~f[w]}
    /\ daemonInitialWarmupDuration \in
           {f \in [Wrappers -> {DefaultWarmupSeconds} \cup (0 .. MaxWarmupOverride)] :
               \A w \in Wrappers \ Callers : f[w] = DefaultWarmupSeconds}
    /\ ipfsDaemonCmd = [w \in Wrappers |->
                           [state |-> "created", setsid |-> FALSE, devnull |-> FALSE]]
    /\ pc = [w \in Wrappers |-> "idle"]
    /\ result = [w \in Wrappers |-> "none"]
    /\ call = [w \in Wrappers |->
                  [op |-> "none", preFlag |-> FALSE, preSpawned |-> 0,
                   lookup |-> NoLookup, sent |-> {}, failed |-> {},
                   slept |-> 0, waited |-> FALSE, exit |-> "none"]]
    /\ spawned = [w \in Wrappers |-> 0]
    /\ everRunning = [w \in Wrappers |-> FALSE]
    /\ procs \in {t \in [Pids -> {"none", "alive"}] :
                     /\ t[OtherPid] = "alive"
                     /\ \A w \in Wrappers : t[ChildPid(w)] = "none"}

\* The configuration NewWrapper and its options have set.
Config == <<isDaemonRunningContinously, daemonInitialWarmupDuration, platform>>

BeginCall(w, name, first) ==
    /\ pc[w] = "idle"
    /\ pc' = [pc EXCEPT ![w] = first]
    /\ result' = [result EXCEPT ![w] = "pending"]
    /\ call' = [call EXCEPT ![w] =
                   [op |-> name, preFlag |-> isDaemonRunning[w],
                    preSpawned |-> spawned[w], lookup |-> NoLookup,
                    sent |-> {}, failed |-> {}, slept |-> 0, waited |-> FALSE, exit |-> "none"]]
    /\ UNCHANGED <<isDaemonRunning, ipfsDaemonCmd, spawned, everRunning, procs, Config>>

Return(w, r) ==
    /\ pc' = [pc EXCEPT ![w] = "idle"]
    /\ result' = [result EXCEPT ![w] = r]

SetRunning(w, b) ==
    /\ isDaemonRunning' = [isDaemonRunning EXCEPT ![w] = b]
    /\ everRunning' = [everRunning EXCEPT ![w] = everRunning[w] \/ b]

----------------------------------------------------------------------------
(* StartDaemonInBackground *)

CallStart(w) == BeginCall(w, "StartDaemonInBackground", "start_lookup")

\* What StartDaemonInBackground does with the result of IsProgramRunning.
\* Variant: a running process is not adopted.
StartBranchSpawnAnyway(res) ==
    IF res.err THEN "error" ELSE "spawn"

StartBranch(res) ==
    IF res.running \/ res.err
    THEN IF res.running THEN "adopt" ELSE "error"
    ELSE "spawn"

StartLookup(w) ==
    /\ pc[w] = "start_lookup"
    /\ \E r \in PgrepOutcomes("ipfs") :
        LET branch == StartBranch(IsProgramRunning(r)) IN
        /\ call' = [call EXCEPT ![w].lookup = r]
        /\ CASE branch = "adopt" -> SetRunning(w, TRUE) /\ Return(w, "nil")
             [] branch = "error" ->
                    /\ Return(w, "err_lookup")
                    /\ UNCHANGED <<isDaemonRunning, everRunning>>
             [] OTHER ->
                    /\ pc' = [pc EXCEPT ![w] = "start_spawn"]
                    /\ UNCHANGED <<isDaemonRunning, everRunning, result>>
    /\ UNCHANGED <<ipfsDaemonCmd, spawned, procs, Config>>

\* exec.Cmd.Start: fails on a command that was started before, and may fail
\* for any operating-system reason otherwise.
\* Variant: a command that was started before can be started again.
CmdStartAgain(cmd) == BOOLEAN

CmdStartOutcomes(cmd) ==
    IF cmd.state /= "created" THEN {FALSE} ELSE BOOLEAN

\* Continuous mode prepares the command for detaching before it is started:
\* a new session, and the null device (which may fail to open) as output.
\* Variant: the running flag is set before the child is started.
StartSpawnFlagFirst(w) ==
    /\ pc[w] = "start_spawn"
    /\ \E devNullOk \in BOOLEAN, startOk \in CmdStartOutcomes(ipfsDaemonCmd[w]) :
        LET cont == isDaemonRunningContinously[w]
            prepared == IF cont
                        THEN [ipfsDaemonCmd[w] EXCEPT !.setsid = TRUE,
                                                      !.devnull = @ \/ devNullOk]
                        ELSE ipfsDaemonCmd[w]
        IN
        /\ cont \/ devNullOk
        /\ IF cont /\ ~devNullOk
           THEN /\ ipfsDaemonCmd' = [ipfsDaemonCmd EXCEPT ![w] = prepared]
                /\ Return(w, "err_devnull")
                /\ UNCHANGED <<spawned, procs>>
           ELSE IF ~startOk
           THEN /\ ipfsDaemonCmd' = [ipfsDaemonCmd EXCEPT ![w] = prepared]
                /\ Return(w, "err_start")
                /\ UNCHANGED <<spawned, procs>>
           ELSE /\ ipfsDaemonCmd' = [ipfsDaemonCmd EXCEPT ![w] =
                                        [prepared EXCEPT !.state = "started"]]
                /\ procs' = [procs EXCEPT ![ChildPid(w)] = "alive"]
                /\ spawned' = [spawned EXCEPT ![w] = @ + 1]
                /\ pc' = [pc EXCEPT ![w] = "start_setflag"]
                /\ UNCHANGED result
    /\ SetRunning(w, TRUE)
    /\ UNCHANGED <<call, Config>>

StartSpawn(w) ==
    /\ pc[w] = "start_spawn"
    /\ \E devNullOk \in BOOLEAN, startOk \in CmdStartOutcomes(ipfsDaemonCmd[w]) :
        LET cont == isDaemonRunningContinously[w]
            prepared == IF cont
                        THEN [ipfsDaemonCmd[w] EXCEPT !.setsid = TRUE,
                                                      !.devnull = @ \/ devNullOk]
                        ELSE ipfsDaemonCmd[w]
        IN
        /\ cont \/ devNullOk
        /\ IF cont /\ ~devNullOk
           THEN /\ ipfsDaemonCmd' = [ipfsDaemonCmd EXCEPT ![w] = prepared]
                /\ Return(w, "err_devnull")
                /\ UNCHANGED <<spawned, procs>>
           ELSE IF ~startOk
           THEN /\ ipfsDaemonCmd' = [ipfsDaemonCmd EXCEPT ![w] = prepared]
                /\ Return(w, "err_start")
                /\ UNCHANGED <<spawned, procs>>
           ELSE /\ ipfsDaemonCmd' = [ipfsDaemonCmd EXCEPT ![w] =
                                        [prepared EXCEPT !.state = "started"]]
                /\ procs' = [procs EXCEPT ![ChildPid(w)] = "alive"]
                /\ spawned' = [spawned EXCEPT ![w] = @ + 1]
                /\ pc' = [pc EXCEPT ![w] = "start_setflag"]
                /\ UNCHANGED result
    /\ UNCHANGED <<isDaemonRunning, everRunning, call, Config>>

StartSetRunning(w) ==
    /\ pc[w] = "start_setflag"
    /\ SetRunning(w, TRUE)
    /\ pc' = [pc EXCEPT ![w] = "start_warmup"]
    /\ UNCHANGED <<ipfsDaemonCmd, result, call, spawned, procs, Config>>

\* time.Sleep(d) returns once d has elapsed.
\* Variant: the sleep returns at once.
WarmupElapsedAtOnce(w) == TRUE

WarmupElapsed(w) == call[w].slept >= daemonInitialWarmupDuration[w]

StartWarmupTick(w) ==
    /\ pc[w] = "start_warmup"
    /\ ~WarmupElapsed(w)
    /\ call' = [call EXCEPT ![w].slept = @ + 1]
    /\ UNCHANGED <<isDaemonRunning, ipfsDaemonCmd, pc, result, spawned,
                   everRunning, procs, Config>>

StartReturn(w) ==
    /\ pc[w] = "start_warmup"
    /\ WarmupElapsed(w)
    /\ Return(w, "nil")
    /\ UNCHANGED <<isDaemonRunning, ipfsDaemonCmd, call, spawned,
                   everRunning, procs, Config>>

----------------------------------------------------------------------------
(* ShutdownDaemon *)

CallShutdown(w) == BeginCall(w, "ShutdownDaemon", "shutdown_entry")

\* ShutdownDaemon ignores the request in continuous operation mode.
\* Variant: the mode is not looked at.
ShutdownNeverIgnored(w) == FALSE

ShutdownIsIgnored(w) == isDaemonRunningContinously[w]

\* Variant: the running flag is not cleared.
ShutdownEntryFlagKept(w) ==
    /\ pc[w] = "shutdown_entry"
    /\ IF ShutdownIsIgnored(w)
       THEN Return(w, "nil")
       ELSE pc' = [pc EXCEPT ![w] = "shutdown_kill"] /\ UNCHANGED result
    /\ UNCHANGED <<isDaemonRunning, everRunning, ipfsDaemonCmd, call, spawned,
                   procs, Config>>

ShutdownEntry(w) ==
    /\ pc[w] = "shutdown_entry"
    /\ IF ShutdownIsIgnored(w)
       THEN /\ Return(w, "nil")
            /\ UNCHANGED <<isDaemonRunning, everRunning>>
       ELSE /\ SetRunning(w, FALSE)
            /\ pc' = [pc EXCEPT ![w] = "shutdown_kill"]
            /\ UNCHANGED result
    /\ UNCHANGED <<ipfsDaemonCmd, call, spawned, procs, Config>>

\* The signal os.Process.Kill sends.
ShutdownSignal == "SIGKILL"

\* ipfsDaemonCmd.Process.Kill(): Process is nil until the command was
\* started, so the call faults; on a process that was already waited for it
\* returns an error; otherwise the signal is sent (a zombie accepts it).
KillOutcome(cmd) ==
    IF cmd.state = "created" THEN "panic"
    ELSE IF cmd.state = "waited" THEN "error"
    ELSE "sent"

ShutdownKill(w) ==
    /\ pc[w] = "shutdown_kill"
    /\ LET out == KillOutcome(ipfsDaemonCmd[w]) IN
       CASE out = "panic" ->
                /\ pc' = [pc EXCEPT ![w] = "crashed"]
                /\ result' = [result EXCEPT ![w] = "panic"]
                /\ UNCHANGED <<call, procs>>
         [] out = "error" ->
                /\ Return(w, "err_kill")
                /\ UNCHANGED <<call, procs>>
         [] OTHER ->
                /\ call' = [call EXCEPT ![w].sent =
                               @ \cup {<<ChildPid(w), ShutdownSignal>>}]
                /\ procs' = Deliver(procs, {ChildPid(w)}, ShutdownSignal)
                /\ pc' = [pc EXCEPT ![w] = "shutdown_wait"]
                /\ UNCHANGED result
    /\ UNCHANGED <<isDaemonRunning, ipfsDaemonCmd, spawned, everRunning, Config>>

\* The value ShutdownDaemon returns for the exit state st that Wait reports:
\* Wait returns an ExitError for every exit that is not a clean one.
\* Variant: every ExitError is returned.
WaitResultAnyExitError(st) ==
    IF ExitCode(st) /= 0 THEN "err_wait" ELSE "nil"

WaitResult(st) ==
    IF ExitCode(st) /= 0
    THEN IF ExitCode(st) = -1 THEN "nil" ELSE "err_wait"
    ELSE "nil"

\* ipfsDaemonCmd.Wait() blocks until the child has exited, and reaps it.
ShutdownWait(w) ==
    /\ pc[w] = "shutdown_wait"
    /\ procs[ChildPid(w)] \in Zombie
    /\ Return(w, WaitResult(procs[ChildPid(w)]))
    /\ procs' = [procs EXCEPT ![ChildPid(w)] = "none"]
    /\ ipfsDaemonCmd' = [ipfsDaemonCmd EXCEPT ![w].state = "waited"]
    /\ call' = [call EXCEPT ![w].waited = TRUE, ![w].exit = procs[ChildPid(w)]]
    /\ UNCHANGED <<isDaemonRunning, spawned, everRunning, Config>>

----------------------------------------------------------------------------
(* ForceShutdownDaemon *)

CallForce(w) == BeginCall(w, "ForceShutdownDaemon", "force_entry")

\* ForceShutdownDaemon terminates by process name in continuous mode only.
ForceByName(w) == isDaemonRunningContinously[w]

\* Variant: the running flag is cleared only by the ephemeral-mode path.
ForceEntryFlagKept(w) ==
    /\ pc[w] = "force_entry"
    /\ pc' = [pc EXCEPT ![w] = IF ForceByName(w) THEN "force_terminate"
                                ELSE "shutdown_entry"]
    /\ UNCHANGED <<isDaemonRunning, everRunning, ipfsDaemonCmd, result, call,
                   spawned, procs, Config>>

\* Variant: the forced shutdown also ends continuous mode.
ForceEntryEndsContinuous(w) ==
    /\ pc[w] = "force_entry"
    /\ IF ForceByName(w)
       THEN /\ SetRunning(w, FALSE)
            /\ pc' = [pc EXCEPT ![w] = "force_terminate"]
       ELSE /\ pc' = [pc EXCEPT ![w] = "shutdown_entry"]
            /\ UNCHANGED <<isDaemonRunning, everRunning>>
    /\ isDaemonRunningContinously' = [isDaemonRunningContinously EXCEPT ![w] = FALSE]
    /\ UNCHANGED <<ipfsDaemonCmd, result, call, spawned, procs,
                   daemonInitialWarmupDuration, platform>>

ForceEntry(w) ==
    /\ pc[w] = "force_entry"
    /\ IF ForceByName(w)
       THEN /\ SetRunning(w, FALSE)
            /\ pc' = [pc EXCEPT ![w] = "force_terminate"]
       ELSE /\ pc' = [pc EXCEPT ![w] = "shutdown_entry"]
            /\ UNCHANGED <<isDaemonRunning, everRunning>>
    /\ UNCHANGED <<ipfsDaemonCmd, result, call, spawned, procs, Config>>

\* The signal oskit.TerminateProgram sends (soft kill).
\* Variant: the force kill the source has commented out.
TerminateSignalKill == "SIGKILL"

TerminateSignal == "SIGTERM"

\* The pids oskit.TerminateProgram signals for lookup outcome r: every pid
\* of the output, the loop going on after a pid that could not be signalled.
TerminateTargets(r) == r.pids

\* oskit.TerminateProgram("ipfs"): a lookup that does not exit with status 0
\* (no match included) is an error; otherwise every pid is sent the signal,
\* and a signal that could not be sent (set bad) is only printed.
ForceTerminate(w) ==
    /\ pc[w] = "force_terminate"
    /\ \E r \in PgrepOutcomes("ipfs") :
        IF r.status /= 0
        THEN /\ call' = [call EXCEPT ![w].lookup = r]
             /\ Return(w, "err_terminate")
             /\ UNCHANGED procs
        ELSE \E bad \in SUBSET TerminateTargets(r) :
             /\ call' = [call EXCEPT
                            ![w].lookup = r,
                            ![w].sent = @ \cup
                                {<<p, TerminateSignal>> : p \in TerminateTargets(r)},
                            ![w].failed = bad]
             /\ procs' = Deliver(procs, TerminateTargets(r) \ bad, TerminateSignal)
             /\ Return(w, "nil")
    /\ UNCHANGED <<isDaemonRunning, ipfsDaemonCmd, spawned, everRunning, Config>>

----------------------------------------------------------------------------
(* The command adapter: one `ipfs` invocation per call *)

IPFSDataDirPath == "./bin/kubo/data"

\* IPFS_PATH as the application process may have it in its own environment.
ProcessEnvs == {"unset", IPFSDataDirPath}

\* The sub-command each adapter operation runs.
AdapterOps == {"add", "get", "cat", "pin ls", "pin add", "pin rm", "repo gc", "id"}

\* The context handed to exec.CommandContext by the operation.
CmdContext(op) == IF op \in {"repo gc", "id"} THEN "background" ELSE "caller"

\* What the operation appends to the environment of its command; "nil" is a
\* command whose Env is left unset.
CmdEnv(op) == "nil"

\* The init and the daemon command append IPFS_PATH to the inherited environment.
DaemonCmdEnv == IPFSDataDirPath

\* IPFS_PATH seen by the child: an unset Env inherits the parent's environment,
\* an appended entry overrides it.
ChildIpfsPath(env, parent) == IF env = "nil" THEN parent ELSE env

NoAdapterCall ==
    [op |-> "none", cancelled |-> FALSE, issued |-> FALSE, ipfsPath |-> "none",
     proc |-> "none", runs |-> 0, result |-> "none"]

\* What an adapter operation decides from the supervisor's state before it
\* builds its command: nothing, the command is always built.
\* Variant: the adapter refuses to run while the daemon is not marked running.
AdapterPrecheckRunning(w) == IF isDaemonRunning[w] THEN "issue" ELSE "refuse"

AdapterPrecheck(w) == "issue"

\* The wrapper fields the supervisor owns.
SupervisorFields(w) ==
    <<isDaemonRunning[w], isDaemonRunningContinously[w], ipfsDaemonCmd[w]>>

CallAdapter(w, op) ==
    /\ pc[w] = "idle"
    /\ pc' = [pc EXCEPT ![w] = "adapter_start"]
    /\ adapter' = [adapter EXCEPT ![w] = [NoAdapterCall EXCEPT !.op = op]]
    /\ UNCHANGED <<isDaemonRunning, ipfsDaemonCmd, result, call, spawned,
                   everRunning, procs, Config, processEnv>>

\* The caller cancels the context it passed to the call in progress.  A
\* command bound to that context is killed; one bound to the background
\* context is not.
CancelCtx(w) ==
    /\ pc[w] \in {"adapter_start", "adapter_run"}
    /\ ~adapter[w].cancelled
    /\ adapter' = [adapter EXCEPT
                      ![w].cancelled = TRUE,
                      ![w].proc = IF /\ adapter[w].proc = "running"
                                     /\ CmdContext(adapter[w].op) = "caller"
                                  THEN "killed" ELSE adapter[w].proc]
    /\ UNCHANGED <<supervisorVars, processEnv>>

\* The operation calls cmd.CombinedOutput, once (runs counts the calls); it
\* starts the command, and a command whose context is already done is not
\* started.
AdapterStart(w) ==
    /\ pc[w] = "adapter_start"
    /\ IF AdapterPrecheck(w) = "refuse"
       THEN /\ pc' = [pc EXCEPT ![w] = "idle"]
            /\ adapter' = [adapter EXCEPT ![w].result = "err_not_running"]
       ELSE IF CmdContext(adapter[w].op) = "caller" /\ adapter[w].cancelled
       THEN /\ pc' = [pc EXCEPT ![w] = "idle"]
            /\ adapter' = [adapter EXCEPT ![w].runs = @ + 1,
                                          ![w].result = "err_cmd"]
       ELSE /\ pc' = [pc EXCEPT ![w] = "adapter_run"]
            /\ adapter' = [adapter EXCEPT
                   ![w].runs = @ + 1,
                   ![w].issued = TRUE,
                   ![w].proc = "running",
                   ![w].ipfsPath = ChildIpfsPath(CmdEnv(adapter[w].op), processEnv[w])]
    /\ UNCHANGED <<isDaemonRunning, ipfsDaemonCmd, result, call, spawned,
                   everRunning, procs, Config, processEnv>>

\* How a running command may end: exit status 0 with output the operation
\* can use, exit status 0 with output it cannot decode, or a failure.
CmdEndings(op) == {"ok", "fail"} \cup (IF op = "id" THEN {"undecodable"} ELSE {})

\* What the operation does with the ending of its command: "nil" is success,
\* "err_cmd" the error that wraps the command's error and its combined output,
\* "fatal" is log.Fatalf (only Id, on output that is not JSON).
\* Variant: the operations that return nothing but an error swallow it.
FinishResultSwallow(op, end) ==
    CASE end = "ok" -> "nil"
      [] end = "fail" -> IF op \in {"pin add", "pin rm", "get", "repo gc"}
                         THEN "nil" ELSE "err_cmd"
      [] OTHER -> "fatal"

FinishResult(op, end) ==
    CASE end = "ok" -> "nil"
      [] end = "fail" -> "err_cmd"
      [] OTHER -> "fatal"

\* The command ends and the operation returns.  A killed command is an error
\* like a non-zero exit status; log.Fatalf ends the application.
AdapterFinish(w) ==
    /\ pc[w] = "adapter_run"
    /\ \E e \in CmdEndings(adapter[w].op) :
         LET end == IF adapter[w].proc = "killed" THEN "fail" ELSE e
             res == FinishResult(adapter[w].op, end)
         IN
         /\ pc' = [pc EXCEPT ![w] = IF res = "fatal" THEN "exited" ELSE "idle"]
         /\ adapter' = [adapter EXCEPT
                ![w].proc = IF adapter[w].proc = "killed" THEN "killed"
                            ELSE IF end = "fail" THEN "exit1" ELSE "exit0",
                ![w].result = res]
    /\ UNCHANGED <<isDaemonRunning, ipfsDaemonCmd, result, call, spawned,
                   everRunning, procs, Config, processEnv>>

AdapterIdle == UNCHANGED adapterVars

----------------------------------------------------------------------------
(* Parsing the output of `ipfs add` and `ipfs pin ls` *)

\* Longest command output considered, in lexemes.
MaxOutputLen == 5

\* Output is a sequence of lexemes: white space, the text `added`, the three
\* pin-type labels, and two other pieces of text without white space (a
\* content identifier, a file name).  Adjacent lexemes other than white space
\* run together into one token.
Space == " "
Lexemes == {Space, "added", "bafy", "f", "recursive", "indirect", "direct"}

RECURSIVE SeqsUpTo(_)
SeqsUpTo(n) ==
    IF n = 0 THEN {<<>>}
    ELSE LET shorter == SeqsUpTo(n - 1) IN
         shorter \cup {Append(s, x) : s \in {t \in shorter : Len(t) = n - 1}, x \in Lexemes}

Outputs == SeqsUpTo(MaxOutputLen)

\* strings.Fields: the maximal runs of lexemes that are not white space.
RECURSIVE FieldsFrom(_, _, _, _)
FieldsFrom(text, i, cur, acc) ==
    IF i > Len(text)
    THEN IF cur = <<>> THEN acc ELSE Append(acc, cur)
    ELSE IF text[i] = Space
    THEN FieldsFrom(text, i + 1, <<>>, IF cur = <<>> THEN acc ELSE Append(acc, cur))
    ELSE FieldsFrom(text, i + 1, Append(cur, text[i]), acc)

Fields(text) == FieldsFrom(text, 1, <<>>, <<>>)

\* The string of one lexeme, as a token.
Str(x) == <<x>>

\* strings.Contains(part, sub) for a one-lexeme sub.
Contains(part, sub) == \E i \in 1 .. Len(part) : part[i] = sub

\* The test AddFile applies to a part to recognise the confirmation marker.
\* Variant: the part must be the marker itself.
IsAddedMarkerExact(part) == part = Str("added")

IsAddedMarker(part) == Contains(part, "added")

\* The loop of AddFile over the parts; cid is the empty string until assigned.
RECURSIVE AddFileScan(_, _, _, _)
AddFileScan(parts, i, foundAddedText, cid) ==
    IF i > Len(parts) THEN cid
    ELSE IF cid /= <<>> THEN cid
    ELSE IF foundAddedText THEN AddFileScan(parts, i + 1, foundAddedText, parts[i])
    ELSE IF IsAddedMarker(parts[i]) THEN AddFileScan(parts, i + 1, TRUE, cid)
    ELSE AddFileScan(parts, i + 1, foundAddedText, cid)

\* Variant: `direct` is not among the ignored parts.
IgnorePartArrTwo == <<"recursive", "indirect">>

IgnorePartArr == <<"recursive", "indirect", "direct">>

\* The inner loop of ListPinsByType: is the part equal to an ignored part?
RECURSIVE IgnoreFound(_, _, _)
IgnoreFound(part, j, ignoreFound) ==
    IF j > Len(IgnorePartArr) THEN ignoreFound
    ELSE IgnoreFound(part, j + 1, ignoreFound \/ part = Str(IgnorePartArr[j]))

\* The outer loop of ListPinsByType.
RECURSIVE ListPinsScan(_, _, _)
ListPinsScan(parts, i, cids) ==
    IF i > Len(parts) THEN cids
    ELSE ListPinsScan(parts, i + 1,
                      IF ~IgnoreFound(parts[i], 1, FALSE)
                      THEN Append(cids, parts[i]) ELSE cids)

NotParsed == [fn |-> "none", err |-> FALSE, cid |-> <<>>, cids |-> <<>>]

ParseInputs ==
    /\ cmdOutput \in Outputs
    /\ cmdErr \in BOOLEAN
    /\ parsed = NotParsed

\* AddFile once cmd.CombinedOutput has returned.
AddFileReturn ==
    /\ parsed = NotParsed
    /\ parsed' = IF cmdErr
                 THEN [NotParsed EXCEPT !.fn = "AddFile", !.err = TRUE]
                 ELSE [NotParsed EXCEPT !.fn = "AddFile",
                                        !.cid = AddFileScan(Fields(cmdOutput), 1, FALSE, <<>>)]
    /\ UNCHANGED <<cmdOutput, cmdErr>>

\* ListPinsByType once cmd.CombinedOutput has returned.
ListPinsReturn ==
    /\ parsed = NotParsed
    /\ parsed' = IF cmdErr
                 THEN [NotParsed EXCEPT !.fn = "ListPinsByType", !.err = TRUE]
                 ELSE [NotParsed EXCEPT !.fn = "ListPinsByType",
                                        !.cids = ListPinsScan(Fields(cmdOutput), 1, <<>>)]
    /\ UNCHANGED <<cmdOutput, cmdErr>>

----------------------------------------------------------------------------
(* AddFileContent and its temporary file *)

\* Number of distinct strings randomkit.String can return in this model.
MaxTempNames == 2

\* randomkit.String(5): some string of the alphabet; nothing relates the
\* strings returned by two calls.
RandomStrings == 1 .. MaxTempNames

\* Goroutines of the application that call AddFileContent.
TempCallers == {"g1", "g2"}

NoFile == [owner |-> "none", data |-> "none"]

NoTempCall == [pc |-> "idle", name |-> 0, created |-> FALSE, result |-> "none",
               added |-> "none"]

NoTempFiles ==
    /\ tempFiles = [n \in RandomStrings |-> NoFile]
    /\ tcall = [c \in TempCallers |-> NoTempCall]

\* Entry of AddFileContent: nil content is refused, otherwise the file path
\* is built from a random string.
TempCall(c, isNil) ==
    /\ tcall[c].pc = "idle"
    /\ IF isNil
       THEN tcall' = [tcall EXCEPT ![c] = [NoTempCall EXCEPT !.result = "err_missing"]]
       ELSE \E n \in RandomStrings :
                tcall' = [tcall EXCEPT ![c] =
                             [NoTempCall EXCEPT !.pc = "create", !.name = n,
                                                !.result = "pending"]]
    /\ UNCHANGED tempFiles

\* os.Create: creates the file, or truncates the file of that name.
TempCreate(c) ==
    /\ tcall[c].pc = "create"
    /\ \E ok \in BOOLEAN :
         IF ok
         THEN /\ tempFiles' = [tempFiles EXCEPT ![tcall[c].name] =
                                  [owner |-> c, data |-> "empty"]]
              /\ tcall' = [tcall EXCEPT ![c].pc = "write", ![c].created = TRUE]
         ELSE /\ tcall' = [tcall EXCEPT ![c].pc = "idle", ![c].result = "err_create"]
              /\ UNCHANGED tempFiles

\* fo.Write: on failure the call returns at once.  The content lands in the
\* file of that name if there (still) is one.
TempWrite(c) ==
    /\ tcall[c].pc = "write"
    /\ \E ok \in BOOLEAN :
         IF ok
         THEN /\ tempFiles' = [tempFiles EXCEPT ![tcall[c].name] =
                                  IF @ = NoFile THEN @ ELSE [@ EXCEPT !.data = c]]
              /\ tcall' = [tcall EXCEPT ![c].pc = "close"]
         ELSE /\ tcall' = [tcall EXCEPT ![c].pc = "idle", ![c].result = "err_write"]
              /\ UNCHANGED tempFiles

\* fo.Close: on failure the call returns at once; on success the removal of
\* the file is deferred to the end of the call.
TempClose(c) ==
    /\ tcall[c].pc = "close"
    /\ \E ok \in BOOLEAN :
         tcall' = [tcall EXCEPT ![c].pc = IF ok THEN "add" ELSE "idle",
                                ![c].result = IF ok THEN @ ELSE "err_close"]
    /\ UNCHANGED tempFiles

\* wrap.AddFile on the file path, then the deferred os.Remove.  `ipfs add`
\* fails on a missing file and may fail otherwise; a failed removal is logged.
TempAdd(c) ==
    /\ tcall[c].pc = "add"
    /\ \E ok \in BOOLEAN :
         LET file == tempFiles[tcall[c].name] IN
         IF ok /\ file /= NoFile
         THEN tcall' = [tcall EXCEPT ![c].pc = "idle", ![c].result = "nil",
                                     ![c].added = file.data]
         ELSE tcall' = [tcall EXCEPT ![c].pc = "idle", ![c].result = "err_add"]
    /\ tempFiles' = [tempFiles EXCEPT ![tcall[c].name] = NoFile]

----------------------------------------------------------------------------
(* NewWrapper: provisioning of the binary, `ipfs init`, the daemon command *)

\* Values of the (OS, architecture) pair, runtime.GOOS and runtime.GOARCH or
\* the ones given to WithOverrideBinaryOsAndArch; "plan9" and "riscv64" stand
\* for every name the table does not have.
OsNames == {"darwin", "linux", "freebsd", "openbsd", "windows", "plan9"}
ArchNames == {"arm", "arm64", "386", "amd64", "riscv64"}

\* urlsMap of getDownloadURL: the file of the kubo v0.29.0 distribution, as
\* (os, arch, extension) of its name.
UrlsMap ==
    "darwin" :> ("arm64" :> <<"darwin", "arm64", "tar.gz">> @@
                    "amd64" :> <<"darwin", "amd64", "tar.gz">>) @@
    "linux" :> ("arm" :> <<"linux", "arm", "tar.gz">> @@
                    "arm64" :> <<"linux", "arm64", "tar.gz">> @@
                    "386" :> <<"linux", "386", "tar.gz">> @@
                    "amd64" :> <<"linux", "amd64", "tar.gz">>) @@
    "freebsd" :> ("arm" :> <<"freebsd", "arm", "tar.gz">> @@
                    "386" :> <<"freebsd", "386", "tar.gz">> @@
                    "amd64" :> <<"freebsd", "amd64", "tar.gz">>) @@
    "openbsd" :> ("arm" :> <<"openbsd", "arm", "tar.gz">> @@
                    "386" :> <<"openbsd", "386", "tar.gz">> @@
                    "amd64" :> <<"openbsd", "amd64", "tar.gz">>) @@
    "windows" :> ("arm" :> <<"windows", "arm64", "zip">> @@
                    "386" :> <<"windows", "386", "zip">> @@
                    "amd64" :> <<"windows", "amd64", "zip">>)

\* getDownloadURL: a lookup of a missing key gives ok = false.
\* Variant: only the operating system is looked up.
getDownloadURLByOs(os, arch) ==
    IF os \in DOMAIN UrlsMap
    THEN [ok |-> TRUE, url |-> <<os, arch, "tar.gz">>]
    ELSE [ok |-> FALSE, url |-> <<>>]

getDownloadURL(os, arch) ==
    IF os \in DOMAIN UrlsMap /\ arch \in DOMAIN UrlsMap[os]
    THEN [ok |-> TRUE, url |-> UrlsMap[os][arch]]
    ELSE [ok |-> FALSE, url |-> <<>>]

\* The working directory: the directories NewWrapper makes, the archive at
\* ./bin/ipfs.tar.gz, the directory ./bin/kubo, the binary at ./bin/kubo/ipfs
\* and the repository that `ipfs init` makes.
FreshDisk == [dirs |-> FALSE, archive |-> "absent", kuboDir |-> FALSE,
              binary |-> "absent", executable |-> FALSE, repo |-> FALSE]

NoDownload == [create |-> FALSE, resp |-> "none", copy |-> FALSE, err |-> <<>>,
               file |-> "absent"]

NotConstructing == [pc |-> "none", os |-> "none", arch |-> "none", trace |-> <<>>,
                    url |-> <<>>, dl |-> NoDownload, initOk |-> FALSE, slept |-> 0,
                    result |-> "none", disk0 |-> FreshDisk]

NoConstruction ==
    /\ disk = FreshDisk
    /\ prov = NotConstructing

ProvEnded == {"none", "constructed", "fatal", "killed", "error"}

\* The step taken is recorded with what it did to the outside world.
Did(what) == Append(prov.trace, what)

\* log.Fatalf: the application exits.
Fatal(r) == [prov EXCEPT !.pc = "fatal", !.result = r]

\* The application starts and calls NewWrapper; the pair is the platform's
\* or the override's.
Construct(os, arch) ==
    /\ prov.pc \in ProvEnded
    /\ prov' = [NotConstructing EXCEPT !.pc = "mkdirs", !.os = os, !.arch = arch,
                                       !.disk0 = disk]
    /\ UNCHANGED disk

\* oskit.CreateDirsIfDoesNotExist on ./bin, the data and the denylist directory.
NewMkdirs ==
    /\ prov.pc = "mkdirs"
    /\ \E ok \in BOOLEAN :
         IF disk.dirs
         THEN /\ prov' = [prov EXCEPT !.pc = "stat_binary"]
              /\ UNCHANGED disk
         ELSE IF ok
         THEN /\ prov' = [prov EXCEPT !.pc = "stat_binary", !.trace = Did("mkdir")]
              /\ disk' = [disk EXCEPT !.dirs = TRUE]
         ELSE /\ prov' = Fatal("err_mkdir")
              /\ UNCHANGED disk

\* The test NewWrapper makes with os.Stat(IPFSBinaryFilePath): any file at the
\* path counts.
\* Variant: the binary is provisioned on every construction.
NeedsProvisioningAlways(d) == TRUE

NeedsProvisioning(d) == d.binary = "absent"

StatBinary ==
    /\ prov.pc = "stat_binary"
    /\ prov' = [prov EXCEPT !.pc = IF NeedsProvisioning(disk)
                                   THEN "stat_archive" ELSE "daemon_cmd"]
    /\ UNCHANGED disk

\* downloadAndUnzip: the URL is resolved and the archive downloaded only when
\* there is no file at the archive path.
StatArchive ==
    /\ prov.pc = "stat_archive"
    /\ prov' = [prov EXCEPT !.pc = IF disk.archive = "absent"
                                   THEN "resolve" ELSE "mkdir_kubo"]
    /\ UNCHANGED disk

Resolve ==
    /\ prov.pc = "resolve"
    /\ LET r == getDownloadURL(prov.os, prov.arch) IN
       prov' = IF r.ok
               THEN [prov EXCEPT !.pc = "download", !.trace = Did("resolve"),
                                 !.url = r.url]
               ELSE [Fatal("err_unsupported") EXCEPT !.trace = Did("resolve"),
                                                      !.url = r.url]
    /\ UNCHANGED disk

\* What http.Get may give: an error, or a response with a status.
StatusOK == "200 OK"
HttpResponses == {"network error", StatusOK, "404 Not Found"}

\* urlkit.DownloadFile: os.Create, http.Get, the status check, io.Copy.  The
\* result is the error returned (<<>> is nil) and the file left at the
\* destination: none, the empty file os.Create made, part of the body, or
\* the whole body.
\* Variant: the status of the response is not checked.
DownloadFileAnyStatus(createOk, resp, copyOk) ==
    IF ~createOk THEN [err |-> <<"create">>, file |-> "absent"]
    ELSE IF resp = "network error" THEN [err |-> <<"get">>, file |-> "empty"]
    ELSE IF ~copyOk THEN [err |-> <<"copy">>, file |-> "partial"]
    ELSE [err |-> <<>>, file |-> "complete"]

DownloadFile(createOk, resp, copyOk) ==
    IF ~createOk THEN [err |-> <<"create">>, file |-> "absent"]
    ELSE IF resp = "network error" THEN [err |-> <<"get">>, file |-> "empty"]
    ELSE IF resp /= StatusOK THEN [err |-> <<"bad status", resp>>, file |-> "empty"]
    ELSE IF ~copyOk THEN [err |-> <<"copy">>, file |-> "partial"]
    ELSE [err |-> <<>>, file |-> "complete"]

Download ==
    /\ prov.pc = "download"
    /\ \E createOk \in BOOLEAN, resp \in HttpResponses, copyOk \in BOOLEAN :
         LET r == DownloadFile(createOk, resp, copyOk)
             dl == [create |-> createOk, resp |-> resp, copy |-> copyOk,
                    err |-> r.err, file |-> r.file]
         IN
         /\ disk' = [disk EXCEPT !.archive = r.file]
         /\ prov' = IF r.err = <<>>
                    THEN [prov EXCEPT !.pc = "mkdir_kubo", !.trace = Did("download"),
                                      !.dl = dl]
                    ELSE [Fatal("err_download") EXCEPT !.trace = Did("download"),
                                                       !.dl = dl]

\* oskit.CreateDirIfDoesNotExist on ./bin/kubo and the data directory.
MkdirKubo ==
    /\ prov.pc = "mkdir_kubo"
    /\ \E ok \in BOOLEAN :
         IF disk.kuboDir
         THEN /\ prov' = [prov EXCEPT !.pc = "extract"]
              /\ UNCHANGED disk
         ELSE IF ok
         THEN /\ prov' = [prov EXCEPT !.pc = "extract", !.trace = Did("mkdir")]
              /\ disk' = [disk EXCEPT !.kuboDir = TRUE]
         ELSE /\ prov' = Fatal("err_mkdir")
              /\ UNCHANGED disk

\* xtractr.ExtractTarGzip: only a complete archive can be extracted in full; a
\* failed extraction may have written part of the binary.
ExtractEndings(archive) ==
    (IF archive = "complete" THEN {"complete"} ELSE {}) \cup {"absent", "partial"}

Extract ==
    /\ prov.pc = "extract"
    /\ \E e \in ExtractEndings(disk.archive) :
         /\ disk' = [disk EXCEPT !.binary = e, !.executable = (e = "complete")]
         /\ prov' = IF e = "complete"
                    THEN [prov EXCEPT !.pc = "remove_archive", !.trace = Did("extract")]
                    ELSE [Fatal("err_extract") EXCEPT !.trace = Did("extract")]

\* os.Remove of the archive; its failure is returned and is fatal in NewWrapper.
\* Variant: a failed removal is only logged.
RemoveArchiveErrorLogged ==
    /\ prov.pc = "remove_archive"
    /\ \E ok \in BOOLEAN :
         /\ disk' = [disk EXCEPT !.archive = IF ok THEN "absent" ELSE @]
         /\ prov' = [prov EXCEPT !.pc = "chmod",
                                 !.trace = IF ok THEN Did("remove") ELSE @]

RemoveArchive ==
    /\ prov.pc = "remove_archive"
    /\ \E ok \in BOOLEAN :
         IF ok
         THEN /\ disk' = [disk EXCEPT !.archive = "absent"]
              /\ prov' = [prov EXCEPT !.pc = "chmod", !.trace = Did("remove")]
         ELSE /\ prov' = Fatal("err_remove")
              /\ UNCHANGED disk

\* os.Chmod of the binary, result ignored.
Chmod ==
    /\ prov.pc = "chmod"
    /\ disk' = [disk EXCEPT !.executable = TRUE]
    /\ prov' = [prov EXCEPT !.pc = "init", !.trace = Did("chmod")]

\* Where NewWrapper goes after `ipfs init`: both branches only log.
\* Variant: a failed init ends the application.
AfterInitAbort(ok) == IF ok THEN "init_warmup" ELSE "fatal"

AfterInit(ok) == "init_warmup"

\* `ipfs init` with IPFS_PATH set.
RunInit ==
    /\ prov.pc = "init"
    /\ \E ok \in BOOLEAN :
         /\ disk' = [disk EXCEPT !.repo = disk.repo \/ ok]
         /\ prov' = [prov EXCEPT !.pc = AfterInit(ok), !.trace = Did("init"),
                                 !.initOk = ok,
                                 !.result = IF AfterInit(ok) = "fatal"
                                            THEN "err_init" ELSE @]

\* time.Sleep(wrapper.daemonInitialWarmupDuration) after init, one second
\* at a time, for the wrapper under construction.
InitWarmupElapsed == \A w \in Callers : prov.slept >= daemonInitialWarmupDuration[w]

InitWarmupTick ==
    /\ prov.pc = "init_warmup"
    /\ ~InitWarmupElapsed
    /\ prov' = [prov EXCEPT !.slept = @ + 1]
    /\ UNCHANGED disk

InitWarmupDone ==
    /\ prov.pc = "init_warmup"
    /\ InitWarmupElapsed
    /\ prov' = [prov EXCEPT !.pc = "daemon_cmd"]
    /\ UNCHANGED disk

\* The daemon command is built (not started) and the wrapper returned.
DaemonCmd ==
    /\ prov.pc = "daemon_cmd"
    /\ \E ok \in BOOLEAN :
         prov' = [prov EXCEPT !.pc = IF ok THEN "constructed" ELSE "error",
                              !.result = IF ok THEN "nil" ELSE "err_pipe"]
    /\ UNCHANGED disk

\* The application is killed while NewWrapper runs.
Interrupt ==
    /\ prov.pc \notin ProvEnded
    /\ prov' = [prov EXCEPT !.pc = "killed", !.result = "killed"]
    /\ UNCHANGED disk

----------------------------------------------------------------------------
(* NewWrapper: the functional options *)

\* A wrapper whose construction is over (or is not followed).
Built == [pc |-> "built", forced |-> FALSE, before |-> {}, lookup |-> NoLookup,
          sent |-> {}, failed |-> {}, warned |-> FALSE]

NoStartup == startup = [w \in Wrappers |-> Built]

\* The `ipfs` processes alive at this moment.
LiveIpfs == {p \in Pids : ProcName(p) = "ipfs" /\ procs[p] \in Live}

\* oskit.TerminateProgram for lookup outcome r when the signal cannot be sent
\* to the pids in bad: a failed lookup is the only error returned.
TerminateProgram(r, bad) ==
    [err |-> r.status /= 0,
     sent |-> IF r.status /= 0 THEN {}
              ELSE {<<p, TerminateSignal>> : p \in TerminateTargets(r)},
     failed |-> IF r.status /= 0 THEN {} ELSE bad,
     table |-> IF r.status /= 0 THEN procs
               ELSE Deliver(procs, TerminateTargets(r) \ bad, TerminateSignal)]

\* STEP 1 of NewWrapper: the directories are made before the options run.
StartupMkdirs(w) ==
    /\ startup[w].pc = "mkdirs"
    /\ startup' = [startup EXCEPT ![w].pc = "options"]
    /\ UNCHANGED <<supervisorVars, adapterVars>>

\* STEP 3: the options are applied.  WithForcedShutdownDaemonOnStartup calls
\* oskit.TerminateProgram("ipfs") and prints a warning when it returns an
\* error; nothing waits for the signalled processes to exit.
StartupOptions(w) ==
    /\ startup[w].pc = "options"
    /\ IF ~startup[w].forced
       THEN /\ startup' = [startup EXCEPT ![w].pc = "provision"]
            /\ UNCHANGED procs
       ELSE \E r \in PgrepOutcomes("ipfs") :
            \E bad \in SUBSET TerminateTargets(r) :
              LET t == TerminateProgram(r, bad) IN
              /\ startup' = [startup EXCEPT
                                ![w].pc = "provision", ![w].before = LiveIpfs,
                                ![w].lookup = r, ![w].sent = t.sent,
                                ![w].failed = t.failed, ![w].warned = t.err]
              /\ procs' = t.table
    /\ UNCHANGED <<isDaemonRunning, ipfsDaemonCmd, pc, result, call, spawned,
                   everRunning, Config, adapterVars>>

\* STEP 4 to the end of NewWrapper: the binary is provisioned if need be, the
\* daemon command is prepared and the wrapper returned.
StartupProvision(w) ==
    /\ startup[w].pc = "provision"
    /\ startup' = [startup EXCEPT ![w].pc = "built"]
    /\ UNCHANGED <<supervisorVars, adapterVars>>

----------------------------------------------------------------------------
(* StartDaemonInBackground called from two goroutines on one wrapper *)

\* Goroutines of the application that call StartDaemonInBackground on the
\* same wrapper.  The wrapper has no lock: the calls interleave at every read
\* and write of its fields and of the exec.Cmd.
StartCallers == {"s1", "s2"}

NotCalled == [pc |-> "idle", result |-> "none"]

NoRace == race = [g \in StartCallers |-> NotCalled]

RaceGoto(g, where) == race' = [race EXCEPT ![g].pc = where]

RaceReturn(g, r) == race' = [race EXCEPT ![g] = [pc |-> "done", result |-> r]]

RaceCall(w, g) ==
    /\ race[g] = NotCalled
    /\ RaceGoto(g, "lookup")
    /\ UNCHANGED supervisorVars

\* oskit.IsProgramRunning("ipfs") and the branch on its result.
RaceLookup(w, g) ==
    /\ race[g].pc = "lookup"
    /\ \E r \in PgrepOutcomes("ipfs") :
        LET branch == StartBranch(IsProgramRunning(r)) IN
        CASE branch = "adopt" -> SetRunning(w, TRUE) /\ RaceReturn(g, "nil")
          [] branch = "error" ->
                 /\ RaceReturn(g, "err_lookup")
                 /\ UNCHANGED <<isDaemonRunning, everRunning>>
          [] OTHER ->
                 /\ RaceGoto(g, "start_check")
                 /\ UNCHANGED <<isDaemonRunning, everRunning>>
    /\ UNCHANGED <<ipfsDaemonCmd, pc, result, call, spawned, procs, Config>>

\* Continuous mode prepares the command; then exec.Cmd.Start tests whether
\* the command was started before (c.Process != nil) and may fail for any
\* operating-system reason.
RaceStartCheck(w, g) ==
    /\ race[g].pc = "start_check"
    /\ \E devNullOk \in BOOLEAN, startOk \in CmdStartOutcomes(ipfsDaemonCmd[w]) :
        LET cont == isDaemonRunningContinously[w] IN
        /\ cont \/ devNullOk
        /\ ipfsDaemonCmd' = [ipfsDaemonCmd EXCEPT
                                ![w].setsid = @ \/ cont,
                                ![w].devnull = @ \/ (cont /\ devNullOk)]
        /\ IF cont /\ ~devNullOk THEN RaceReturn(g, "err_devnull")
           ELSE IF ~startOk THEN RaceReturn(g, "err_start")
           ELSE RaceGoto(g, "start_fork")
    /\ UNCHANGED <<isDaemonRunning, everRunning, pc, result, call, spawned, procs,
                   Config>>

\* exec.Cmd.Start past its test: os.StartProcess forks the child and the
\* handle is stored in c.Process.
RaceStartFork(w, g) ==
    /\ race[g].pc = "start_fork"
    /\ ipfsDaemonCmd' = [ipfsDaemonCmd EXCEPT ![w].state = "started"]
    /\ procs' = [procs EXCEPT ![ChildPid(w)] = "alive"]
    /\ spawned' = [spawned EXCEPT ![w] = @ + 1]
    /\ RaceGoto(g, "setflag")
    /\ UNCHANGED <<isDaemonRunning, everRunning, pc, result, call, Config>>

\* wrap.isDaemonRunning = true
RaceSetRunning(w, g) ==
    /\ race[g].pc = "setflag"
    /\ SetRunning(w, TRUE)
    /\ RaceGoto(g, "warmup")
    /\ UNCHANGED <<ipfsDaemonCmd, pc, result, call, spawned, procs, Config>>

\* time.Sleep(wrap.daemonInitialWarmupDuration) has elapsed; return nil.
RaceWarmupReturn(w, g) ==
    /\ race[g].pc = "warmup"
    /\ RaceReturn(g, "nil")
    /\ UNCHANGED supervisorVars

----------------------------------------------------------------------------
(* oskit.IsProgramRunning on the result of one `pgrep -x` run *)

\* Longest output of pgrep considered, in characters.
MaxPgrepLen == 3

\* The output is made of digits of process ids, new lines and blanks.
Digit == "7"
WhiteSpace == {"\n", " "}

RECURSIVE CharsUpTo(_)
CharsUpTo(n) ==
    IF n = 0 THEN {<<>>}
    ELSE LET shorter == CharsUpTo(n - 1) IN
         shorter \cup {Append(t, c) : t \in {u \in shorter : Len(u) = n - 1},
                                      c \in {Digit} \cup WhiteSpace}

\* How cmd.Run ends: exit status 0, 1 (no match), 2 (pgrep failed), or the
\* command could not be run at all (-1, an error that is no ExitError).
RunStatuses == {0, 1, 2, -1}

\* strings.TrimSpace: the text without its leading and trailing white space.
RECURSIVE TrimLeft(_)
TrimLeft(t) ==
    IF t /= <<>> /\ Head(t) \in WhiteSpace THEN TrimLeft(Tail(t)) ELSE t

RECURSIVE TrimRight(_)
TrimRight(t) ==
    IF t /= <<>> /\ t[Len(t)] \in WhiteSpace
    THEN TrimRight(SubSeq(t, 1, Len(t) - 1)) ELSE t

TrimSpace(t) == TrimRight(TrimLeft(t))

\* The lookup outcome IsProgramRunning decides on: the status, and whether the
\* trimmed output names any process.
LookupOf(status, out) ==
    [status |-> status,
     pids |-> IF TrimSpace(out) = <<>> THEN {} ELSE ExtPids]

NotLookedUp == [running |-> FALSE, err |-> FALSE, done |-> FALSE]

NoLookupRun ==
    /\ pgrep = [status |-> 1, out |-> <<>>]
    /\ running = NotLookedUp

\* IsProgramRunning once cmd.Run has returned.
LookupReturn ==
    /\ ~running.done
    /\ LET res == IsProgramRunning(LookupOf(pgrep.status, pgrep.out)) IN
       running' = [running |-> res.running, err |-> res.err, done |-> TRUE]
    /\ UNCHANGED pgrep

----------------------------------------------------------------------------
(* The environment: other `ipfs` processes come and go, daemons exit *)

\* An `ipfs` process not spawned by a wrapper of this model appears, for
\* example a daemon left running by an earlier run in continuous mode.
ExtAppear(p) ==
    /\ p \in ExtPids
    /\ procs[p] = "none"
    /\ procs' = [procs EXCEPT ![p] = "alive"]
    /\ UNCHANGED <<isDaemonRunning, ipfsDaemonCmd, pc, result, call, spawned,
                   everRunning, Config>>

\* Such a process exits (on its own, or after a terminate request) and is
\* reaped by its parent at once.
ExtExit(p) ==
    /\ p \in ExtPids
    /\ procs[p] \in Live
    /\ procs' = [procs EXCEPT ![p] = "none"]
    /\ UNCHANGED <<isDaemonRunning, ipfsDaemonCmd, pc, result, call, spawned,
                   everRunning, Config>>

\* The daemon spawned by wrapper w exits; it stays a zombie until waited for.
ChildExit(w, st) ==
    /\ procs[ChildPid(w)] \in Live
    /\ procs' = [procs EXCEPT ![ChildPid(w)] = st]
    /\ UNCHANGED <<isDaemonRunning, ipfsDaemonCmd, pc, result, call, spawned,
                   everRunning, Config>>

----------------------------------------------------------------------------

\* Nothing to parse.
NoOutput ==
    /\ cmdOutput = <<>>
    /\ cmdErr = FALSE
    /\ parsed = NotParsed

\* What a specification of one part of the wrapper leaves alone.
Aside ==
    UNCHANGED <<parseVars, tempVars, provVars, startupVars, raceVars, lookupVars>>

\* No adapter call has been made; the supervisor is checked on its own.
Init ==
    /\ SupervisorInit
    /\ processEnv = [w \in Wrappers |-> "unset"]
    /\ adapter = [w \in Wrappers |-> NoAdapterCall]
    /\ NoOutput
    /\ NoTempFiles
    /\ NoConstruction
    /\ NoLookupRun
    /\ NoRace
    /\ NoStartup

Next ==
    \/ \E w \in Callers : CallStart(w) /\ AdapterIdle /\ Aside
    \/ \E w \in Callers : StartLookup(w) /\ AdapterIdle /\ Aside
    \/ \E w \in Callers : StartSpawn(w) /\ AdapterIdle /\ Aside
    \/ \E w \in Callers : StartSetRunning(w) /\ AdapterIdle /\ Aside
    \/ \E w \in Callers : StartWarmupTick(w) /\ AdapterIdle /\ Aside
    \/ \E w \in Callers : StartReturn(w) /\ AdapterIdle /\ Aside
    \/ \E w \in Callers : CallShutdown(w) /\ AdapterIdle /\ Aside
    \/ \E w \in Callers : ShutdownEntry(w) /\ AdapterIdle /\ Aside
    \/ \E w \in Callers : ShutdownKill(w) /\ AdapterIdle /\ Aside
    \/ \E w \in Callers : ShutdownWait(w) /\ AdapterIdle /\ Aside
    \/ \E w \in Callers : CallForce(w) /\ AdapterIdle /\ Aside
    \/ \E w \in Callers : ForceEntry(w) /\ AdapterIdle /\ Aside
    \/ \E w \in Callers : ForceTerminate(w) /\ AdapterIdle /\ Aside
    \/ \E p \in ExtPids : ExtAppear(p) /\ AdapterIdle /\ Aside
    \/ \E p \in ExtPids : ExtExit(p) /\ AdapterIdle /\ Aside
    \/ \E w \in Callers, st \in Zombie : ChildExit(w, st) /\ AdapterIdle /\ Aside

Spec == Init /\ [][Next]_vars

\* The supervisor together with the command adapter.  The warm-up pause does
\* not concern the adapter and is overridden to a short one.
InitAdapter ==
    /\ SupervisorInit
    /\ \A w \in Callers : platform[w] = HostPlatform
    /\ \A w \in Callers : daemonInitialWarmupDuration[w] = MaxWarmupOverride
    /\ processEnv \in {f \in [Wrappers -> ProcessEnvs] :
                          \A w \in Wrappers \ Callers : f[w] = "unset"}
    /\ adapter = [w \in Wrappers |-> NoAdapterCall]
    /\ NoOutput
    /\ NoTempFiles
    /\ NoConstruction
    /\ NoLookupRun
    /\ NoRace
    /\ NoStartup

NextAdapter ==
    \/ Next
    \/ \E w \in Callers, op \in AdapterOps : CallAdapter(w, op) /\ Aside
    \/ \E w \in Callers : CancelCtx(w) /\ Aside
    \/ \E w \in Callers : AdapterStart(w) /\ Aside
    \/ \E w \in Callers : AdapterFinish(w) /\ Aside

SpecAdapter == InitAdapter /\ [][NextAdapter]_vars

\* A wrapper constructed without options, no call made, no other `ipfs`
\* process around.
WrapperAtRest ==
    /\ SupervisorInit
    /\ \A w \in Callers : platform[w] = HostPlatform
    /\ \A p \in ExtPids : procs[p] = "none"
    /\ \A w \in Callers : ~isDaemonRunningContinously[w]
    /\ \A w \in Callers : daemonInitialWarmupDuration[w] = DefaultWarmupSeconds
    /\ processEnv = [w \in Wrappers |-> "unset"]
    /\ adapter = [w \in Wrappers |-> NoAdapterCall]

\* The parsing of command output on its own: no wrapper field is involved.
InitParse ==
    /\ WrapperAtRest
    /\ ParseInputs
    /\ NoTempFiles
    /\ NoConstruction
    /\ NoLookupRun
    /\ NoRace
    /\ NoStartup

NextParse ==
    \/ AddFileReturn /\ UNCHANGED <<supervisorVars, adapterVars, tempVars, provVars, startupVars,
                                  raceVars, lookupVars>>
    \/ ListPinsReturn /\ UNCHANGED <<supervisorVars, adapterVars, tempVars, provVars, startupVars,
                                  raceVars, lookupVars>>

SpecParse == InitParse /\ [][NextParse]_vars

\* AddFileContent called from two goroutines of the application.
InitTemp ==
    /\ WrapperAtRest
    /\ NoOutput
    /\ NoTempFiles
    /\ NoConstruction
    /\ NoLookupRun
    /\ NoRace
    /\ NoStartup

TempOnly ==
    UNCHANGED <<supervisorVars, adapterVars, parseVars, provVars, startupVars, raceVars,
                lookupVars>>

NextTemp ==
    \/ \E c \in TempCallers, isNil \in BOOLEAN : TempCall(c, isNil) /\ TempOnly
    \/ \E c \in TempCallers : TempCreate(c) /\ TempOnly
    \/ \E c \in TempCallers : TempWrite(c) /\ TempOnly
    \/ \E c \in TempCallers : TempClose(c) /\ TempOnly
    \/ \E c \in TempCallers : TempAdd(c) /\ TempOnly

SpecTemp == InitTemp /\ [][NextTemp]_vars

\* Constructions of the wrapper, one after the other, in one working
\* directory that starts empty.
InitProvision ==
    /\ WrapperAtRest
    /\ NoOutput
    /\ NoTempFiles
    /\ NoConstruction
    /\ NoLookupRun
    /\ NoRace
    /\ NoStartup

ProvOnly ==
    UNCHANGED <<supervisorVars, adapterVars, parseVars, tempVars, startupVars, raceVars,
                lookupVars>>

NextProvision ==
    \/ \E os \in OsNames, arch \in ArchNames : Construct(os, arch) /\ ProvOnly
    \/ NewMkdirs /\ ProvOnly
    \/ StatBinary /\ ProvOnly
    \/ StatArchive /\ ProvOnly
    \/ Resolve /\ ProvOnly
    \/ Download /\ ProvOnly
    \/ MkdirKubo /\ ProvOnly
    \/ Extract /\ ProvOnly
    \/ RemoveArchive /\ ProvOnly
    \/ Chmod /\ ProvOnly
    \/ RunInit /\ ProvOnly
    \/ InitWarmupTick /\ ProvOnly
    \/ InitWarmupDone /\ ProvOnly
    \/ DaemonCmd /\ ProvOnly
    \/ Interrupt /\ ProvOnly

SpecProvision == InitProvision /\ [][NextProvision]_vars

\* The construction of a wrapper, with or without the forced shutdown on
\* startup, followed by its first call of StartDaemonInBackground.  No other
\* `ipfs` process is started meanwhile, so an `ipfs` process that the wrapper
\* did not spawn was there before the construction.
InitStartup ==
    /\ SupervisorInit
    /\ \A w \in Callers : daemonInitialWarmupDuration[w] = MaxWarmupOverride
    /\ processEnv = [w \in Wrappers |-> "unset"]
    /\ adapter = [w \in Wrappers |-> NoAdapterCall]
    /\ NoOutput
    /\ NoTempFiles
    /\ NoConstruction
    /\ NoLookupRun
    /\ NoRace
    /\ startup \in {f \in [Wrappers -> {[Built EXCEPT !.pc = "mkdirs", !.forced = b] :
                                           b \in BOOLEAN} \cup {Built}] :
                       /\ \A w \in Callers : f[w].pc = "mkdirs"
                       /\ \A w \in Wrappers \ Callers : f[w] = Built}

StartupOnly == UNCHANGED <<parseVars, tempVars, provVars, raceVars, lookupVars>>

NextStartup ==
    \/ \E w \in Callers : StartupMkdirs(w) /\ StartupOnly
    \/ \E w \in Callers : StartupOptions(w) /\ StartupOnly
    \/ \E w \in Callers : StartupProvision(w) /\ StartupOnly
    \/ \E w \in Callers : /\ startup[w].pc = "built"
                          /\ call[w].op = "none"
                          /\ CallStart(w) /\ AdapterIdle /\ Aside
    \/ \E w \in Callers : StartLookup(w) /\ AdapterIdle /\ Aside
    \/ \E w \in Callers : StartSpawn(w) /\ AdapterIdle /\ Aside
    \/ \E w \in Callers : StartSetRunning(w) /\ AdapterIdle /\ Aside
    \/ \E w \in Callers : StartWarmupTick(w) /\ AdapterIdle /\ Aside
    \/ \E w \in Callers : StartReturn(w) /\ AdapterIdle /\ Aside
    \/ \E p \in ExtPids : ExtExit(p) /\ AdapterIdle /\ Aside
    \/ \E w \in Callers, st \in Zombie : ChildExit(w, st) /\ AdapterIdle /\ Aside

SpecStartup == InitStartup /\ [][NextStartup]_vars

\* One wrapper, no call made yet, on which two goroutines of the application
\* each call StartDaemonInBackground once.
InitRace ==
    /\ SupervisorInit
    /\ processEnv = [w \in Wrappers |-> "unset"]
    /\ adapter = [w \in Wrappers |-> NoAdapterCall]
    /\ NoOutput
    /\ NoTempFiles
    /\ NoConstruction
    /\ NoLookupRun
    /\ NoStartup
    /\ NoRace

RaceOnly ==
    UNCHANGED <<adapterVars, parseVars, tempVars, provVars, startupVars, lookupVars>>

NextRace ==
    \/ \E w \in Callers, g \in StartCallers : RaceCall(w, g) /\ RaceOnly
    \/ \E w \in Callers, g \in StartCallers : RaceLookup(w, g) /\ RaceOnly
    \/ \E w \in Callers, g \in StartCallers : RaceStartCheck(w, g) /\ RaceOnly
    \/ \E w \in Callers, g \in StartCallers : RaceStartFork(w, g) /\ RaceOnly
    \/ \E w \in Callers, g \in StartCallers : RaceSetRunning(w, g) /\ RaceOnly
    \/ \E w \in Callers, g \in StartCallers : RaceWarmupReturn(w, g) /\ RaceOnly
    \/ \E p \in ExtPids : ExtExit(p) /\ AdapterIdle /\ Aside
    \/ \E w \in Callers, st \in Zombie : ChildExit(w, st) /\ AdapterIdle /\ Aside

SpecRace == InitRace /\ [][NextRace]_vars

\* Two wrapper instances, each in its own application, each calling
\* StartDaemonInBackground once; the calls interleave step by step.  No
\* other `ipfs` process starts or exits meanwhile.
InitPair ==
    /\ SupervisorInit
    /\ \A w \in Callers : platform[w] = HostPlatform
    /\ \A w \in Callers : daemonInitialWarmupDuration[w] = MaxWarmupOverride
    /\ processEnv = [w \in Wrappers |-> "unset"]
    /\ adapter = [w \in Wrappers |-> NoAdapterCall]
    /\ NoOutput
    /\ NoTempFiles
    /\ NoConstruction
    /\ NoLookupRun
    /\ NoStartup
    /\ NoRace

NextPair ==
    \/ \E w \in Wrappers : call[w].op = "none" /\ CallStart(w) /\ AdapterIdle /\ Aside
    \/ \E w \in Wrappers : StartLookup(w) /\ AdapterIdle /\ Aside
    \/ \E w \in Wrappers : StartSpawn(w) /\ AdapterIdle /\ Aside
    \/ \E w \in Wrappers : StartSetRunning(w) /\ AdapterIdle /\ Aside
    \/ \E w \in Wrappers : StartWarmupTick(w) /\ AdapterIdle /\ Aside
    \/ \E w \in Wrappers : StartReturn(w) /\ AdapterIdle /\ Aside

SpecPair == InitPair /\ [][NextPair]_vars

\* IsProgramRunning on its own, for every status and output of pgrep.
InitLookup ==
    /\ WrapperAtRest
    /\ NoOutput
    /\ NoTempFiles
    /\ NoConstruction
    /\ NoStartup
    /\ NoRace
    /\ pgrep \in [status : RunStatuses, out : CharsUpTo(MaxPgrepLen)]
    /\ running = NotLookedUp

NextLookup ==
    LookupReturn /\ UNCHANGED <<supervisorVars, adapterVars, parseVars, tempVars,
                                provVars, startupVars, raceVars>>

SpecLookup == InitLookup /\ [][NextLookup]_vars

----------------------------------------------------------------------------

TypeOK ==
    /\ isDaemonRunning \in [Wrappers -> BOOLEAN]
    /\ isDaemonRunningContinously \in [Wrappers -> BOOLEAN]
    /\ pc \in [Wrappers -> {"idle", "start_lookup", "start_spawn", "start_setflag",
                            "start_warmup", "shutdown_entry", "shutdown_kill",
                            "shutdown_wait", "force_entry", "force_terminate",
                            "crashed", "adapter_start", "adapter_run", "exited"}]
    /\ procs \in [Pids -> {"none"} \cup Live \cup Zombie]
    /\ \A w \in Wrappers : ipfsDaemonCmd[w].state \in {"created", "started", "waited"}

----------------------------------------------------------------------------
(* Properties of the process supervisor *)

Ephemeral(w) == ~isDaemonRunningContinously[w]
Continuous(w) == isDaemonRunningContinously[w]
InStart(w) == call[w].op = "StartDaemonInBackground"
InShutdown(w) == call[w].op = "ShutdownDaemon"
InForce(w) == call[w].op = "ForceShutdownDaemon"
Returned(w) == pc[w] = "idle" /\ call[w].op /= "none"
LookupFound(w) == call[w].lookup.status = 0 /\ call[w].lookup.pids /= {}
LookupFailed(w) == call[w].lookup.status \notin {-1, 0, 1}
SpawnedInCall(w) == spawned[w] > call[w].preSpawned

\* C1: a StartDaemonInBackground call whose process lookup reports a running
\* `ipfs` process has returned success with the running flag set and without
\* spawning a child, in both modes and whatever the flag was before.
C1_AdoptRunningDaemon ==
    \A w \in Callers :
        (InStart(w) /\ LookupFound(w)) =>
            /\ pc[w] = "idle"
            /\ result[w] = "nil"
            /\ isDaemonRunning[w]
            /\ ~SpawnedInCall(w)
            /\ \A p \in call[w].lookup.pids : ProcName(p) = "ipfs"

\* A wrapper that had spawned and shut down its own child adopts another
\* application's daemon on its next start.
C1_Witness ==
    \E w \in Callers :
        /\ InStart(w) /\ LookupFound(w) /\ Returned(w)
        /\ Ephemeral(w)
        /\ ~call[w].preFlag
        /\ ipfsDaemonCmd[w].state = "waited"

\* C2: in continuous mode a ShutdownDaemon call sends no signal, does not
\* wait for the child, looks up no process, leaves the running flag as it
\* was and returns success; every signal a continuous-mode wrapper sends is
\* sent by ForceShutdownDaemon.
C2_ContinuousShutdownIsNoop ==
    \A w \in Callers :
        Continuous(w) =>
            /\ InShutdown(w) =>
                  /\ call[w].sent = {}
                  /\ ~call[w].waited
                  /\ call[w].lookup = NoLookup
                  /\ isDaemonRunning[w] = call[w].preFlag
                  /\ pc[w] \in {"shutdown_entry", "idle"}
                  /\ pc[w] = "idle" => result[w] = "nil"
            /\ call[w].sent /= {} => InForce(w)
            /\ ipfsDaemonCmd[w].state /= "waited"

\* ShutdownDaemon has returned on a continuous wrapper that is Running with
\* its own child, and the child is still alive.
C2_Witness ==
    \E w \in Callers :
        /\ Continuous(w) /\ InShutdown(w) /\ Returned(w)
        /\ call[w].preFlag
        /\ procs[ChildPid(w)] = "alive"

SupervisorState(w) ==
    IF isDaemonRunning[w] THEN "Running"
    ELSE IF everRunning[w] THEN "Stopped" ELSE "NotStarted"

\* C3 as stated: the supervisor state only moves NotStarted -> Running ->
\* Stopped, and a wrapper that has left Running never is Running again.
C3_NoRestartInPlace ==
    [][\A w \in Callers :
          (SupervisorState(w) = "Stopped") => (SupervisorState(w)' = "Stopped")]_vars

\* C3 as amended: the state moves NotStarted -> Running -> Stopped, and from
\* Stopped back to Running only in a StartDaemonInBackground call that adopts
\* an `ipfs` process found by the lookup or spawns the wrapper's first child;
\* no wrapper ever spawns a second child.
C3_RestartOnlyByAdoptionOrFirstSpawn ==
    [][\A w \in Callers :
          /\ spawned'[w] <= 1
          /\ (SupervisorState(w) = "NotStarted") =>
                 (SupervisorState(w)' \in {"NotStarted", "Running"})
          /\ (SupervisorState(w) = "Running") =>
                 (SupervisorState(w)' \in {"Running", "Stopped"})
          /\ (SupervisorState(w) /= "Running" /\ SupervisorState(w)' = "Running") =>
                 /\ call[w].op = "StartDaemonInBackground"
                 /\ \/ pc[w] = "start_lookup" /\ LookupFound(w)' /\ ~SpawnedInCall(w)'
                    \/ pc[w] = "start_setflag" /\ call[w].preSpawned = 0
                                               /\ spawned[w] = 1]_vars

\* A wrapper that was Stopped after running its own child is Running again.
C3_Witness ==
    \E w \in Callers :
        /\ InStart(w) /\ isDaemonRunning[w] /\ ~call[w].preFlag
        /\ call[w].preSpawned = 1

\* C4: a StartDaemonInBackground call whose process lookup failed (for a
\* reason other than "no match") has returned an error without spawning a
\* child and with the running flag as it was before the call.
C4_LookupFailureIsReturned ==
    \A w \in Callers :
        (InStart(w) /\ LookupFailed(w)) =>
            /\ pc[w] = "idle"
            /\ result[w] = "err_lookup"
            /\ ~SpawnedInCall(w)
            /\ isDaemonRunning[w] = call[w].preFlag

\* The lookup failed on a wrapper that was Running: it still is.
C4_Witness ==
    \E w \in Callers :
        /\ InStart(w) /\ LookupFailed(w) /\ Returned(w)
        /\ call[w].preFlag /\ isDaemonRunning[w]

\* C5 as stated: after a failed start of the child the call has returned an
\* error, the running flag is false and no warmup was waited.
C5_StartFailureLeavesNotStarted ==
    \A w \in Callers :
        (InStart(w) /\ result[w] = "err_start") =>
            /\ pc[w] = "idle"
            /\ ~isDaemonRunning[w]
            /\ call[w].slept = 0

\* C5 as amended: after a failed start of the child the call has returned an
\* error, spawned nothing, left the running flag as it was before the call
\* (false unless the wrapper was Running already) and waited no warmup.
C5_StartFailureLeavesFlagUnchanged ==
    \A w \in Callers :
        /\ (InStart(w) /\ result[w] = "err_start") =>
              /\ pc[w] = "idle"
              /\ ~SpawnedInCall(w)
              /\ isDaemonRunning[w] = call[w].preFlag
              /\ ~everRunning[w] => SupervisorState(w) = "NotStarted"
              /\ call[w].slept = 0
        /\ (InStart(w) /\ pc[w] = "start_spawn") =>
              isDaemonRunning[w] = call[w].preFlag

\* The start of the child failed on a wrapper that never was Running.
C5_Witness ==
    \E w \in Callers :
        /\ InStart(w) /\ result[w] = "err_start" /\ Returned(w)
        /\ ~everRunning[w]
        /\ ipfsDaemonCmd[w].state = "created"

\* C6: in a StartDaemonInBackground call that spawns a child the running
\* flag is still as before the call when the spawn has succeeded, is true
\* when the warmup starts, and the call returns success only when the whole
\* configured warmup duration has elapsed.
C6_RunningThenFullWarmup ==
    \A w \in Callers :
        InStart(w) =>
            /\ pc[w] \in {"start_lookup", "start_spawn"} =>
                  ~SpawnedInCall(w) /\ isDaemonRunning[w] = call[w].preFlag
            /\ pc[w] = "start_setflag" =>
                  /\ SpawnedInCall(w)
                  /\ isDaemonRunning[w] = call[w].preFlag
                  /\ call[w].slept = 0
            /\ pc[w] = "start_warmup" =>
                  /\ SpawnedInCall(w)
                  /\ isDaemonRunning[w]
                  /\ call[w].slept <= daemonInitialWarmupDuration[w]
            /\ (pc[w] = "idle" /\ SpawnedInCall(w)) =>
                  /\ result[w] = "nil"
                  /\ isDaemonRunning[w]
                  /\ call[w].slept = daemonInitialWarmupDuration[w]
            /\ ~SpawnedInCall(w) => call[w].slept = 0

\* A spawning call has returned after the default warmup of five seconds.
C6_Witness ==
    \E w \in Callers :
        /\ InStart(w) /\ Returned(w) /\ SpawnedInCall(w)
        /\ daemonInitialWarmupDuration[w] = DefaultWarmupSeconds
        /\ call[w].slept = DefaultWarmupSeconds

\* C7: in ephemeral mode the running flag is false from the moment
\* ShutdownDaemon attempts the termination, and stays false when the call
\* has ended, whether signalling or waiting succeeded, returned an error or
\* faulted.
C7_StoppedBeforeTermination ==
    \A w \in Callers :
        (Ephemeral(w) /\ InShutdown(w)) =>
            /\ pc[w] \in {"shutdown_kill", "shutdown_wait", "idle", "crashed"} =>
                  ~isDaemonRunning[w]
            /\ (call[w].sent /= {} \/ call[w].waited) => ~isDaemonRunning[w]
            /\ pc[w] = "shutdown_entry" =>
                  call[w].sent = {} /\ ~call[w].waited

\* ShutdownDaemon returned the wait error on a wrapper that was Running.
C7_Witness ==
    \E w \in Callers :
        /\ Ephemeral(w) /\ InShutdown(w) /\ Returned(w)
        /\ call[w].preFlag
        /\ result[w] = "err_wait"

\* What an ephemeral-mode shutdown does once it has been entered: the signal
\* goes to the wrapper's own child before the wait; a failed signal returns
\* an error without a wait; the wait result decides the return value.
ShutdownContract(w) ==
    /\ call[w].lookup = NoLookup
    /\ call[w].sent \subseteq {<<ChildPid(w), ShutdownSignal>>}
    /\ pc[w] = "shutdown_wait" => call[w].sent /= {} /\ ~call[w].waited
    /\ pc[w] \in {"force_entry", "shutdown_entry", "shutdown_kill"} =>
          call[w].sent = {} /\ ~call[w].waited
    /\ call[w].waited => call[w].sent /= {} /\ pc[w] = "idle"
    /\ result[w] \in {"err_kill", "panic"} => call[w].sent = {} /\ ~call[w].waited
    /\ pc[w] = "idle" =>
          \/ result[w] = "err_kill" /\ ~call[w].waited
          \/ /\ call[w].waited
             /\ call[w].exit \in {"signaled", "exit0"} => result[w] = "nil"
             /\ call[w].exit = "exit1" => result[w] = "err_wait"
             /\ call[w].exit \in Zombie

\* C8: ShutdownDaemon in ephemeral mode signals the child and only then
\* waits; a failed signal returns an error without waiting; a child that
\* died by a signal or exited cleanly gives success, and a child that had
\* exited with a non-zero code gives an error.
C8_SignalThenWait ==
    \A w \in Callers :
        (Ephemeral(w) /\ InShutdown(w)) => ShutdownContract(w)

\* The daemon had exited with a non-zero code before ShutdownDaemon waited.
C8_Witness ==
    \E w \in Callers :
        /\ Ephemeral(w) /\ InShutdown(w) /\ Returned(w)
        /\ call[w].waited /\ call[w].exit = "exit1"
        /\ result[w] = "err_wait"

\* C9: every signal ShutdownDaemon sends in ephemeral mode is the graceful
\* termination signal, which the daemon can handle, never the kill signal.
C9_ShutdownIsGraceful ==
    \A w \in Callers :
        (Ephemeral(w) /\ InShutdown(w)) =>
            \A s \in call[w].sent : s[2] = "SIGTERM"

C32_DetachExactlyInContinuousMode ==
    \A w \in Callers :
        /\ spawned[w] > 0 =>
               /\ ipfsDaemonCmd[w].setsid = Continuous(w)
               /\ ipfsDaemonCmd[w].devnull = Continuous(w)
        /\ Ephemeral(w) => ~ipfsDaemonCmd[w].setsid /\ ~ipfsDaemonCmd[w].devnull
        /\ (InStart(w) /\ Returned(w) /\ result[w] = "err_devnull") =>
               /\ Continuous(w)
               /\ ~SpawnedInCall(w)
               /\ isDaemonRunning[w] = call[w].preFlag

\* A continuous-mode Start that failed on the null device was followed by
\* one that spawned the detached child.
C32_Witness ==
    \E w \in Callers :
        /\ Continuous(w)
        /\ InStart(w) /\ Returned(w) /\ SpawnedInCall(w)
        /\ ipfsDaemonCmd[w].setsid /\ ipfsDaemonCmd[w].devnull
        /\ procs[ChildPid(w)] = "alive"

\* C33: in ephemeral mode ShutdownDaemon returns nil or an error and never
\* faults, whatever was called on the wrapper before.
C33_ShutdownNeverFaults ==
    \A w \in Callers :
        (Ephemeral(w) /\ InShutdown(w)) =>
            /\ pc[w] /= "crashed"
            /\ result[w] /= "panic"

\* C34: in continuous mode ForceShutdownDaemon clears the running flag before
\* it looks the process up and waits for no process, so the flag is false
\* when the call has returned; a lookup that matches nothing (exit status 1)
\* makes the call return an error.
C34_ForceClearsFlagFirst ==
    \A w \in Callers :
        (InForce(w) /\ Continuous(w)) =>
            /\ pc[w] = "force_entry" => call[w].lookup = NoLookup
            /\ pc[w] = "force_terminate" =>
                   ~isDaemonRunning[w] /\ call[w].lookup = NoLookup
            /\ Returned(w) =>
                   /\ ~isDaemonRunning[w]
                   /\ ~call[w].waited
                   /\ call[w].lookup.status = 1 => result[w] = "err_terminate"

\* The wrapper was marked running, the daemon went away, and the forced
\* shutdown found no process.
C34_Witness ==
    \E w \in Callers :
        /\ InForce(w) /\ Continuous(w) /\ Returned(w)
        /\ call[w].preFlag
        /\ ~isDaemonRunning[w]
        /\ call[w].lookup.status = 1
        /\ result[w] = "err_terminate"

\* C38: a StartDaemonInBackground that adopts a running daemon returns
\* without pausing; the warmup is waited, in full, only by the call that
\* spawned a child.
C38_NoWarmupOnAdoption ==
    \A w \in Callers :
        InStart(w) =>
            /\ call[w].slept > 0 => SpawnedInCall(w)
            /\ (Returned(w) /\ LookupFound(w)) =>
                   /\ result[w] = "nil"
                   /\ ~SpawnedInCall(w)
                   /\ call[w].slept = 0
            /\ (Returned(w) /\ SpawnedInCall(w)) =>
                   call[w].slept = daemonInitialWarmupDuration[w]

\* An adoption under the default warmup of five seconds.
C38_Witness ==
    \E w \in Callers :
        /\ InStart(w) /\ Returned(w) /\ LookupFound(w)
        /\ isDaemonRunning[w]
        /\ daemonInitialWarmupDuration[w] = DefaultWarmupSeconds
        /\ call[w].slept = 0

\* C39: with no `ipfs` process around, two wrappers that call
\* StartDaemonInBackground at the same time spawn one daemon at most.
C39_OneDaemonForTwoWrappers ==
    (\A p \in ExtPids : procs[p] = "none") =>
        Cardinality({w \in Wrappers : spawned[w] > 0}) <= 1

\* C28: oskit.TerminateProgram (the continuous-mode ForceShutdownDaemon
\* returns its result) gives an error when the lookup finds no process and
\* when the signal could not be sent to one of the pids found.
C28_TerminateReportsEveryFailure ==
    \A w \in Callers :
        (InForce(w) /\ Continuous(w) /\ Returned(w)) =>
            (result[w] = "nil" <=>
                (call[w].lookup.status = 0 /\ call[w].failed = {}))

\* C27: with WithForcedShutdownDaemonOnStartup and an `ipfs` process alive
\* when the options run, the process is sent SIGTERM before the provisioning
\* (when the termination does not fail; a failure is a warning and the
\* construction goes on), and the StartDaemonInBackground that follows the
\* construction leaves the wrapper running with a daemon it spawned in that
\* call.
C27_ForcedStartupGivesNewDaemon ==
    \A w \in Callers :
        (startup[w].forced /\ startup[w].before /= {}) =>
            /\ startup[w].pc \in {"provision", "built"}
            /\ (~startup[w].warned /\ startup[w].failed = {}) =>
                   startup[w].sent = {<<p, "SIGTERM">> : p \in startup[w].before}
            /\ (InStart(w) /\ Returned(w) /\ result[w] = "nil" /\ isDaemonRunning[w]) =>
                   SpawnedInCall(w)

\* C30: a wrapper spawns at most one daemon child, however the calls on it
\* interleave.
C30_AtMostOneSpawn ==
    \A w \in Wrappers : spawned[w] <= 1

----------------------------------------------------------------------------
(* Properties of the command adapter *)

AdapterReturned(w) == pc[w] = "idle" /\ adapter[w].op /= "none"
AdapterStep(w) == adapter'[w] /= adapter[w]

\* C31: no step of StartDaemonInBackground, ShutdownDaemon,
\* ForceShutdownDaemon or an adapter operation changes the wrapper's OS name,
\* architecture, warmup duration or continuous-mode flag.
C31_ConfigIsImmutable ==
    [][Config' = Config]_vars

\* A wrapper in continuous mode with an overridden warmup that has been
\* started, force-shut-down and used for an adapter call.
C31_Witness ==
    \E w \in Callers :
        /\ Continuous(w)
        /\ daemonInitialWarmupDuration[w] = MaxWarmupOverride
        /\ platform[w] = HostPlatform
        /\ everRunning[w]
        /\ InForce(w) /\ Returned(w)
        /\ AdapterReturned(w)

\* C11: every invocation the adapter issues (add, get, cat, pin add, pin rm,
\* pin ls, repo gc, id) runs with IPFS_PATH set to the wrapper's repository
\* path, as the init and daemon invocations do.
C11_AdapterCarriesRepoPath ==
    \A w \in Wrappers :
        adapter[w].issued => adapter[w].ipfsPath = DaemonCmdEnv

\* C12: once the caller's context is cancelled, the invocation in progress is
\* aborted, whichever adapter operation issued it.
C12_CancelAbortsInvocation ==
    \A w \in Wrappers :
        (pc[w] = "adapter_run" /\ adapter[w].cancelled) => adapter[w].proc = "killed"

\* C13: a step of an adapter operation leaves the running flag, the continuous
\* flag and the daemon handle as they are, and an operation that has returned
\* has issued its invocation whatever the supervisor state was (the one
\* exception is a context already cancelled when the command is started).
C13_AdapterIgnoresSupervisor ==
    [][\A w \in Wrappers :
          AdapterStep(w) =>
              /\ SupervisorFields(w)' = SupervisorFields(w)
              /\ everRunning'[w] = everRunning[w]
              /\ (pc'[w] = "idle" /\ ~adapter'[w].cancelled) => adapter'[w].issued]_vars

C13_Witness ==
    \E w \in Wrappers :
        /\ AdapterReturned(w)
        /\ ~everRunning[w]
        /\ adapter[w].issued
        /\ adapter[w].result = "nil"

\* The operations that return nothing but an error.
ErrorOnlyOps == {"pin add", "pin rm", "get", "repo gc"}

\* C25: an adapter operation runs its command once per call and never again;
\* a command that ends with a non-zero status (or is killed) makes the
\* operation return the error that carries the combined output; Pin, Unpin,
\* GetFile and GarbageCollection return nil exactly when the status is zero.
C25_OneInvocationNoRetry ==
    \A w \in Wrappers :
        /\ adapter[w].runs <= 1
        /\ AdapterReturned(w) => adapter[w].runs = 1
        /\ (AdapterReturned(w) /\ adapter[w].proc \in {"exit1", "killed"}) =>
               adapter[w].result = "err_cmd"
        /\ (AdapterReturned(w) /\ adapter[w].op \in ErrorOnlyOps) =>
               (adapter[w].result = "nil" <=> adapter[w].proc = "exit0")

C25_Witness ==
    \E w \in Wrappers :
        /\ AdapterReturned(w)
        /\ adapter[w].op = "pin rm"
        /\ adapter[w].proc = "exit1"
        /\ adapter[w].runs = 1
        /\ adapter[w].result = "err_cmd"

\* C26: `id` output that cannot be decoded makes Id return an error, without a
\* node identity, and the application goes on.
C26_IdParseFailureIsReturned ==
    \A w \in Wrappers :
        (adapter[w].op = "id" /\ adapter[w].proc = "exit0"
                              /\ adapter[w].result /= "nil") =>
            /\ pc[w] = "idle"
            /\ adapter[w].result = "err_parse"

\* The last lifecycle call on wrapper w was a ShutdownDaemon in ephemeral mode
\* that signalled the daemon the wrapper had spawned, waited for it and
\* returned.
AfterShutdown(w) ==
    /\ Ephemeral(w)
    /\ InShutdown(w)
    /\ call[w].waited
    /\ spawned[w] > 0
    /\ pc[w] \in {"idle", "adapter_start", "adapter_run"}

----------------------------------------------------------------------------
(* Properties of the output parsing *)

\* The part that follows the first part passing Test; the empty string when
\* no part passes or the first that does is the last part.
AfterFirst(parts, Test(_)) ==
    LET hits == {i \in 1 .. Len(parts) : Test(parts[i])} IN
    IF hits = {} THEN <<>>
    ELSE LET first == CHOOSE i \in hits : \A j \in hits : i <= j IN
         IF first = Len(parts) THEN <<>> ELSE parts[first + 1]

AddFileParsed == parsed.fn = "AddFile" /\ ~parsed.err

\* C14 as stated: on a zero exit AddFile returns, without error, the part that
\* follows the first part equal to `added`, and the empty identifier when no
\* part is `added` or the first such part is the last.
C14_TokenAfterLiteralAdded ==
    AddFileParsed =>
        parsed.cid = AfterFirst(Fields(cmdOutput), LAMBDA part : part = Str("added"))

\* C14, amended: the marker is the first part that contains `added`.
C14_TokenAfterPartContainingAdded ==
    AddFileParsed =>
        parsed.cid = AfterFirst(Fields(cmdOutput), LAMBDA part : Contains(part, "added"))

\* A part that contains `added` without being it serves as the marker.
C14_Witness ==
    /\ AddFileParsed
    /\ parsed.cid /= <<>>
    /\ \A i \in 1 .. Len(Fields(cmdOutput)) : Fields(cmdOutput)[i] /= Str("added")

ListPinsParsed == parsed.fn = "ListPinsByType" /\ ~parsed.err

PinTypeLabels == {Str("recursive"), Str("indirect"), Str("direct")}

\* C15: ListPinsByType returns exactly the parts of the output that are not
\* `recursive`, `indirect` or `direct`, in their order, duplicates kept.
C15_ListPinsDropsTypeLabels ==
    ListPinsParsed =>
        parsed.cids = SelectSeq(Fields(cmdOutput), LAMBDA part : part \notin PinTypeLabels)

\* Two equal parts around a dropped label are both returned.
C15_Witness ==
    /\ ListPinsParsed
    /\ Len(parsed.cids) = 2
    /\ parsed.cids[1] = parsed.cids[2]
    /\ Len(Fields(cmdOutput)) = 3
    /\ Fields(cmdOutput)[2] \in PinTypeLabels

----------------------------------------------------------------------------
(* Properties of AddFileContent *)

TempInProgress(c) == tcall[c].pc /= "idle"
TempReturned(c) == tcall[c].pc = "idle" /\ tcall[c].result /= "none"

\* C16: once AddFileContent has returned, whatever the outcome (success,
\* failed Add, failed write or close), the temporary file the call created
\* no longer exists.
C16_TempFileRemovedOnEveryOutcome ==
    \A c \in TempCallers :
        (TempReturned(c) /\ tcall[c].created) => tempFiles[tcall[c].name].owner /= c

\* C17: two AddFileContent calls that overlap in time use different
\* temporary file names.
C17_OverlappingCallsUseDifferentNames ==
    \A c1, c2 \in TempCallers :
        (c1 /= c2 /\ TempInProgress(c1) /\ TempInProgress(c2))
            => tcall[c1].name /= tcall[c2].name

----------------------------------------------------------------------------
(* Properties of the construction *)

InTrace(what) == \E i \in 1 .. Len(prov.trace) : prov.trace[i] = what
Constructing == prov.pc /= "none"
BinaryFoundAtStart == prov.disk0.binary /= "absent"
PairUnsupported == ~getDownloadURL(prov.os, prov.arch).ok

\* C18: a construction that finds the binary at its path resolves no URL,
\* downloads, extracts, deletes and changes nothing: the disk stays as the
\* construction found it, so a second construction in a row leaves the
\* installation as the first one left it.
C18_ProvisioningIsNoopWhenInstalled ==
    (Constructing /\ BinaryFoundAtStart) => (prov.trace = <<>> /\ disk = prov.disk0)

\* A second construction has completed on the installation of the first.
C18_Witness ==
    /\ prov.pc = "constructed"
    /\ prov.disk0.binary = "complete"
    /\ prov.disk0.repo
    /\ disk = prov.disk0

\* C19: with a pair the URL table does not have (and no binary installed),
\* the construction makes no network request and creates, writes or removes
\* no file or directory, and it fails as an unsupported platform (or earlier,
\* unable to make its directories).
C19_UnsupportedFailsBeforeAnyEffect ==
    (Constructing /\ PairUnsupported /\ ~BinaryFoundAtStart) =>
        /\ \A i \in 1 .. Len(prov.trace) : prov.trace[i] = "resolve"
        /\ (prov.pc \in {"fatal", "error", "constructed"}
               => prov.result \in {"err_unsupported", "err_mkdir"})

\* C20: with no binary installed and a pair the URL table does not have, the
\* construction never starts `ipfs init` and never gets to the daemon
\* command, whether or not an archive is present at the archive path.
C20_UnsupportedNeverStartsIpfs ==
    (Constructing /\ PairUnsupported /\ ~BinaryFoundAtStart) =>
        /\ ~InTrace("init")
        /\ prov.pc \notin {"init", "daemon_cmd", "constructed"}

\* The pairs the URL table of kubo v0.29.0 lists.
TablePairs ==
    {<<"darwin", "arm64">>, <<"darwin", "amd64">>,
     <<"linux", "arm">>, <<"linux", "arm64">>, <<"linux", "386">>, <<"linux", "amd64">>,
     <<"freebsd", "arm">>, <<"freebsd", "386">>, <<"freebsd", "amd64">>,
     <<"openbsd", "arm">>, <<"openbsd", "386">>, <<"openbsd", "amd64">>,
     <<"windows", "arm">>, <<"windows", "386">>, <<"windows", "amd64">>}

\* C21: getDownloadURL gives a non-empty URL and no error for every pair of
\* the table, and the empty string with an error for every other pair (an
\* unknown OS, or a known OS with an architecture it does not list).
C21_UrlResolvedExactlyForTablePairs ==
    InTrace("resolve") =>
        IF <<prov.os, prov.arch>> \in TablePairs
        THEN prov.url /= <<>> /\ prov.result /= "err_unsupported"
        ELSE prov.url = <<>> /\ prov.result = "err_unsupported"

\* darwin is in the table, darwin/386 is not.
C21_Witness ==
    /\ InTrace("resolve")
    /\ prov.os = "darwin" /\ prov.arch = "386"
    /\ prov.result = "err_unsupported"

\* C22: what a failed download or a failed extraction leaves on disk is never
\* taken for an installation by a later construction: the download is not
\* skipped for an archive that is not whole, and neither `ipfs init` nor the
\* daemon command is reached with a binary that is not whole.
C22_FailedRunLeavesNothingUsable ==
    /\ (prov.pc \in {"mkdir_kubo", "extract"} /\ ~InTrace("download"))
           => disk.archive = "complete"
    /\ prov.pc \in {"init", "init_warmup", "daemon_cmd", "constructed"}
           => disk.binary = "complete"

\* C23: DownloadFile returns nil exactly when the file was created, the GET
\* gave status 200 and the body was copied in full, and then the file is the
\* body; another status gives the error `bad status: <status>`; a network
\* error or a file that cannot be created gives an error.
C23_DownloadFileResult ==
    InTrace("download") =>
        LET d == prov.dl IN
        /\ d.err = <<>> <=> (d.create /\ d.resp = StatusOK /\ d.copy)
        /\ d.err = <<>> => d.file = "complete"
        /\ (d.create /\ d.resp \notin {StatusOK, "network error"})
               => d.err = <<"bad status", d.resp>>
        /\ (~d.create \/ d.resp = "network error") => d.err /= <<>>

C23_Witness ==
    /\ InTrace("download")
    /\ prov.dl.resp = "404 Not Found"
    /\ prov.dl.err = <<"bad status", "404 Not Found">>
    /\ prov.pc = "fatal"

InitFailed == InTrace("init") /\ ~prov.initOk

\* C24: a failed `ipfs init` does not end the construction: the pause then
\* elapses in full before the daemon command is prepared, and the constructor
\* returns a wrapper that is NotStarted (the stdout pipe permitting, as after
\* a successful init).
C24_InitFailureIsNotFatal ==
    InitFailed =>
        /\ prov.pc \in {"init_warmup", "daemon_cmd", "constructed", "error", "killed"}
        /\ prov.pc \in {"daemon_cmd", "constructed", "error"}
               => \A w \in Callers : prov.slept = daemonInitialWarmupDuration[w]
        /\ prov.pc \in {"constructed", "error"} => prov.result \in {"nil", "err_pipe"}
        /\ prov.pc = "constructed"
               => \A w \in Callers : /\ SupervisorState(w) = "NotStarted"
                                     /\ ipfsDaemonCmd[w].state = "created"

C24_Witness ==
    /\ InitFailed
    /\ prov.pc = "constructed"
    /\ prov.result = "nil"
    /\ prov.slept = DefaultWarmupSeconds

\* The steps of downloadAndUnzip in the order of the source.
ProvisioningOrder == <<"resolve", "download", "extract", "remove", "chmod">>

Rank(what) == CHOOSE i \in 1 .. Len(ProvisioningOrder) : ProvisioningOrder[i] = what

IsProvisioningStep(what) == \E i \in 1 .. Len(ProvisioningOrder) : ProvisioningOrder[i] = what

\* C35: the download is skipped exactly when there is a file at the archive
\* path, and a construction that finds the empty file a refused or failed
\* request left there downloads again.
C35_FailedDownloadIsRetried ==
    /\ prov.pc \in {"resolve", "download"} => prov.disk0.archive = "absent"
    /\ (prov.pc \in {"mkdir_kubo", "extract"} /\ ~InTrace("download")) =>
           prov.disk0.archive /= "absent"
    /\ (prov.pc \in {"mkdir_kubo", "extract"}
           /\ prov.disk0.archive = "empty") => InTrace("download")

\* C36: the provisioning steps taken are in the order resolve, download,
\* extract, remove, chmod; once the last one is done no archive is left; a
\* failed removal of the archive ends the provisioning with an error, the
\* binary extracted and the permission step not run.
C36_ProvisioningOrder ==
    /\ \A i, j \in 1 .. Len(prov.trace) :
           (i < j /\ IsProvisioningStep(prov.trace[i])
                  /\ IsProvisioningStep(prov.trace[j])) =>
               Rank(prov.trace[i]) < Rank(prov.trace[j])
    /\ InTrace("chmod") => disk.archive = "absent" /\ InTrace("remove")
    /\ InTrace("remove") => InTrace("extract")
    /\ prov.result = "err_remove" =>
           /\ prov.pc = "fatal"
           /\ ~InTrace("chmod")
           /\ disk.binary = "complete"
           /\ disk.archive /= "absent"

C36_Witness ==
    /\ prov.result = "err_remove"
    /\ prov.trace = <<"mkdir", "resolve", "download", "mkdir", "extract">>
    /\ disk.binary = "complete"

\* C37: a construction runs `ipfs init` and the pause after it exactly when
\* it found no binary and the provisioning went through; one that finds the
\* binary runs neither, initialised repository or not.
C37_InitOnlyAfterProvisioning ==
    /\ InTrace("init") => ~BinaryFoundAtStart /\ InTrace("chmod")
    /\ (~BinaryFoundAtStart
           /\ prov.pc \in {"init_warmup", "daemon_cmd", "constructed", "error"}) =>
           InTrace("init")
    /\ (~BinaryFoundAtStart /\ prov.pc \in {"daemon_cmd", "constructed", "error"}) =>
           \A w \in Callers : prov.slept = daemonInitialWarmupDuration[w]
    /\ BinaryFoundAtStart =>
           /\ ~InTrace("init")
           /\ prov.slept = 0
           /\ disk.repo = prov.disk0.repo

\* The binary is there, the repository was never initialised, and the
\* wrapper is constructed without `ipfs init`.
C37_Witness ==
    /\ BinaryFoundAtStart
    /\ ~disk.repo
    /\ prov.pc = "constructed"
    /\ ~InTrace("init")

\* C40: IsProgramRunning gives (false, nil) for exit status 1, (false, error)
\* for every other failure of the lookup, and for exit status 0 gives true
\* exactly when the trimmed output is not empty; never true with an error.
C40_IsProgramRunningResult ==
    running.done =>
        /\ pgrep.status = 1 => ~running.running /\ ~running.err
        /\ pgrep.status \notin {0, 1} => ~running.running /\ running.err
        /\ pgrep.status = 0 =>
               /\ ~running.err
               /\ running.running <=>
                      (\E i \in 1 .. Len(pgrep.out) : pgrep.out[i] \notin WhiteSpace)
        /\ ~(running.running /\ running.err)

\* White space around a process id, exit status 0.
C40_Witness ==
    /\ running.done
    /\ pgrep = [status |-> 0, out |-> <<" ", Digit, "\n">>]
    /\ running.running
====
